---- MODULE Spec2Model ----
(***************************************************************************)
(* The local development engine of qriososls: runtime resolution, the      *)
(* initial build pass, the gateway emulator, watch registration, and the   *)
(* debouncing reactor loop of internal/engine/local.LocalRunner, together  *)
(* with the Stop of the older internal/engine.LocalRunner that the CLI     *)
(* wires in.  Strings are sequences of one-character strings, so that      *)
(* strings.HasPrefix, strings.Contains, strings.ToLower and filepath.Dir   *)
(* are computed as the code computes them.                                 *)
(***************************************************************************)
EXTENDS Integers, Sequences, FiniteSets, TLC

(* ------------------------------ bounds -------------------------------- *)
\* filesystem events the reactor receives in one run
MaxEvents ==
    3
\* calls of Build the Build probe makes in a row
MaxCalls ==
    2

\* calls of LocalRunner.Stop in one run
MaxStops ==
    2

(* ------------------------------ strings ------------------------------- *)
\* runtime identifiers a configuration may declare (config.LambdaFunc.Runtime)
IdEmpty ==
    <<>>  \* ""
IdGo ==
    <<"g","o","1",".","x">>  \* "go1.x"
IdGoUpper ==
    <<"G","o","1",".","x">>  \* "Go1.x"
IdProvided ==
    <<"p","r","o","v","i","d","e","d",".","a","l","2">>  \* "provided.al2"
IdNode ==
    <<"N","o","d","e","J","S","1","8",".","x">>  \* "NodeJS18.x"
IdPython ==
    <<"p","y","t","h","o","n","3",".","9">>  \* "python3.9"
IdRuby ==
    <<"r","u","b","y","3",".","2">>  \* "ruby3.2"
IdProvidedDash ==
    <<"p","r","o","v","i","d","e","d","-","a","l","2">>  \* "provided-al2"
IdProvidedNew ==
    <<"p","r","o","v","i","d","e","d",".","a","l","2","0","2","3">>  \* "provided.al2023"
IdPythonUpper ==
    <<"P","Y","T","H","O","N","_","3",".","9">>  \* "PYTHON_3.9"

\* literals of RuntimeFactory.GetRuntime
LitProvidedAl2 ==
    <<"p","r","o","v","i","d","e","d",".","a","l","2">>  \* "provided.al2"
LitProvided ==
    <<"p","r","o","v","i","d","e","d">>  \* "provided"
LitGo ==
    <<"g","o">>  \* "go"
LitNode ==
    <<"n","o","d","e">>  \* "node"
LitPython ==
    <<"p","y","t","h","o","n">>  \* "python"

\* file names and glob suffixes of the detection helpers and WatchPatterns
ExtGo ==
    <<".","g","o">>  \* ".go"
ExtJs ==
    <<".","j","s">>  \* ".js"
ExtPy ==
    <<".","p","y">>  \* ".py"
ExtTs ==
    <<".","t","s">>  \* ".ts"
PackageJson ==
    <<"p","a","c","k","a","g","e",".","j","s","o","n">>  \* "package.json"
RequirementsTxt ==
    <<"r","e","q","u","i","r","e","m","e","n","t","s",".","t","x","t">>  \* "requirements.txt"
GoMod ==
    <<"g","o",".","m","o","d">>  \* "go.mod"
GoSum ==
    <<"g","o",".","s","u","m">>  \* "go.sum"
TsConfig ==
    <<"t","s","c","o","n","f","i","g",".","j","s","o","n">>  \* "tsconfig.json"
FileMainGo ==
    <<"m","a","i","n",".","g","o">>  \* "main.go"
FileIndexJs ==
    <<"i","n","d","e","x",".","j","s">>  \* "index.js"
FileAppPy ==
    <<"a","p","p",".","p","y">>  \* "app.py"
FileReadme ==
    <<"R","E","A","D","M","E",".","m","d">>  \* "README.md"

\* ignore patterns of shouldIgnoreEvent and shouldIgnorePath
PatTilde ==
    <<"~","$">>  \* "~$"
PatSwp ==
    <<".","s","w","p">>  \* ".swp"
PatTmp ==
    <<".","t","m","p">>  \* ".tmp"
PatLog ==
    <<".","l","o","g">>  \* ".log"
PatGitSeg ==
    <<"/",".","g","i","t","/">>  \* "/.git/"
PatNodeSeg ==
    <<"/","n","o","d","e","_","m","o","d","u","l","e","s","/">>  \* "/node_modules/"
PatIdea ==
    <<".","i","d","e","a","/">>  \* ".idea/"
DirGit ==
    <<".","g","i","t">>  \* ".git"
DirNodeModules ==
    <<"n","o","d","e","_","m","o","d","u","l","e","s">>  \* "node_modules"
DirCdkOut ==
    <<"c","d","k",".","o","u","t">>  \* "cdk.out"
DirTmp ==
    <<"t","m","p">>  \* "tmp"

\* project layout: cfg.RootPath and each function's Code
RootPath ==
    <<"/","p">>  \* "/p"
CodeA ==
    <<"f","n","s","/","a">>  \* "fns/a"
CodeB ==
    <<"f","n","s","/","b">>  \* "fns/b"
CodeC ==
    <<"c","/","m","a","i","n",".","p","y">>  \* "c/main.py"

\* paths of the filesystem events the watcher may deliver
PathAMain ==
    <<"/","p","/","f","n","s","/","a","/","m","a","i","n",".","g","o">>  \* "/p/fns/a/main.go"
PathCMain ==
    <<"/","p","/","c","/","m","a","i","n",".","p","y">>  \* "/p/c/main.py"
PathGitDir ==
    <<"/","p","/","f","n","s","/","a","/",".","g","i","t">>  \* "/p/fns/a/.git"
PathNodeModules ==
    <<"/","p","/","f","n","s","/","b","/","n","o","d","e","_","m","o","d","u","l","e","s">>  \* "/p/fns/b/node_modules"
PathCdkOut ==
    <<"/","p","/","f","n","s","/","a","/","c","d","k",".","o","u","t">>  \* "/p/fns/a/cdk.out"
PathSwp ==
    <<"/","p","/","f","n","s","/","a","/","m","a","i","n",".","g","o",".","s","w","p">>  \* "/p/fns/a/main.go.swp"
PathTmpl ==
    <<"/","p","/","f","n","s","/","a","/","t","m","p","l",".","g","o">>  \* "/p/fns/a/tmpl.go"

(* -------------------------- string operations ------------------------- *)
UpperCase ==
    <<"A","B","C","D","E","F","G","H","I","J","K","L","M",
      "N","O","P","Q","R","S","T","U","V","W","X","Y","Z">>
LowerCase ==
    <<"a","b","c","d","e","f","g","h","i","j","k","l","m",
      "n","o","p","q","r","s","t","u","v","w","x","y","z">>

\* strings.ToLower on one character
LowerChar(c) ==
    IF \E i \in 1..26 : UpperCase[i] = c
    THEN LowerCase[CHOOSE i \in 1..26 : UpperCase[i] = c]
    ELSE c

\* strings.ToLower
ToLower(s) ==
    [i \in 1..Len(s) |-> LowerChar(s[i])]

\* strings.HasPrefix
HasPrefix(s, p) ==
    /\ Len(p) <= Len(s)
    /\ SubSeq(s, 1, Len(p)) = p

\* strings.HasSuffix
HasSuffix(s, p) ==
    /\ Len(p) <= Len(s)
    /\ SubSeq(s, Len(s) - Len(p) + 1, Len(s)) = p

\* strings.Contains
Contains(s, sub) ==
    \E i \in 1..(Len(s) + 1) :
        /\ i + Len(sub) - 1 <= Len(s)
        /\ SubSeq(s, i, i + Len(sub) - 1) = sub

\* index of the last "/" of a path, 0 when it has none
LastSlash(p) ==
    IF \E i \in 1..Len(p) : p[i] = "/"
    THEN CHOOSE i \in 1..Len(p) : p[i] = "/" /\ \A j \in (i+1)..Len(p) : p[j] # "/"
    ELSE 0

\* filepath.Dir on a clean path
Dir(p) ==
    LET k == LastSlash(p)
    IN  IF k = 0 THEN <<".">>
        ELSE IF k = 1 THEN <<"/">>
        ELSE SubSeq(p, 1, k - 1)

\* filepath.Base on a clean path
Base(p) ==
    SubSeq(p, LastSlash(p) + 1, Len(p))

\* filepath.Join of two clean, non-empty elements
Join(a, b) ==
    a \o <<"/">> \o b

(* ------------------------- runtime kinds ------------------------------ *)
Golang == "golang"
NodeJS == "nodejs"
Python == "python"
RuntimeKinds == {Golang, NodeJS, Python}
\* the error result of GetRuntime / GetRuntimeFromFunction
ErrRuntime == "error"
\* no entry in the functionRuntimes map
NoRuntime == "none"

\* a faulty variant of NeedsBuild: every kind asks for a build
NeedsBuildAlways(rt) ==
    TRUE

\* Runtime.NeedsBuild of the three kinds
NeedsBuild(rt) ==
    rt = Golang

\* Runtime.WatchPatterns: the literal file names and the "*"-suffixes
WatchNames(rt) ==
    CASE rt = Golang -> {GoMod, GoSum}
      [] rt = NodeJS -> {PackageJson, TsConfig}
      [] rt = Python -> {RequirementsTxt}
      [] OTHER -> {}
WatchSuffixes(rt) ==
    CASE rt = Golang -> {ExtGo}
      [] rt = NodeJS -> {ExtJs, ExtTs}
      [] rt = Python -> {ExtPy}
      [] OTHER -> {}

\* a faulty variant of GetRuntime: the identifier is matched as written
GetRuntimeNoFold(awsRuntime) ==
    IF awsRuntime = LitProvidedAl2 \/ awsRuntime = LitProvided THEN Golang
    ELSE IF HasPrefix(awsRuntime, LitGo) THEN Golang
    ELSE IF HasPrefix(awsRuntime, LitNode) THEN NodeJS
    ELSE IF HasPrefix(awsRuntime, LitPython) THEN Python
    ELSE ErrRuntime

\* RuntimeFactory.GetRuntime
GetRuntime(awsRuntime) ==
    LET runtime == ToLower(awsRuntime)
    IN  IF runtime = LitProvidedAl2 \/ runtime = LitProvided THEN Golang
        ELSE IF HasPrefix(runtime, LitGo) THEN Golang
        ELSE IF HasPrefix(runtime, LitNode) THEN NodeJS
        ELSE IF HasPrefix(runtime, LitPython) THEN Python
        ELSE ErrRuntime

\* filepath.Glob(dir/*suffix) over the names of a directory listing
GlobSuffix(listing, suffix) ==
    {n \in listing : HasSuffix(n, suffix)}

hasGoFiles(listing) ==
    GlobSuffix(listing, ExtGo) # {}

hasNodeJSFiles(listing) ==
    \/ PackageJson \in listing
    \/ GlobSuffix(listing, ExtJs) # {}

hasPythonFiles(listing) ==
    \/ RequirementsTxt \in listing
    \/ GlobSuffix(listing, ExtPy) # {}

\* a faulty variant of GetRuntimeFromFunction: the Node.js markers are tested
\* before the Go marker
GetRuntimeFromFunctionNodeFirst(listing) ==
    IF hasNodeJSFiles(listing) THEN NodeJS
    ELSE IF hasGoFiles(listing) THEN Golang
    ELSE IF hasPythonFiles(listing) THEN Python
    ELSE ErrRuntime

\* RuntimeFactory.GetRuntimeFromFunction, on the listing of functionDir
GetRuntimeFromFunction(listing) ==
    IF hasGoFiles(listing) THEN Golang
    ELSE IF hasNodeJSFiles(listing) THEN NodeJS
    ELSE IF hasPythonFiles(listing) THEN Python
    ELSE ErrRuntime

\* a faulty variant of ResolveRuntime: an unsupported identifier is fatal, with
\* no fallback to detection
ResolveRuntimeNoFallback(declared, listing) ==
    IF declared # IdEmpty
    THEN GetRuntime(declared)
    ELSE GetRuntimeFromFunction(listing)

\* the body of the loop of initializeRuntimes: the declared identifier
\* first, detection when it is empty or unsupported
ResolveRuntime(declared, listing) ==
    IF declared # IdEmpty
    THEN LET rt == GetRuntime(declared)
         IN  IF rt = ErrRuntime THEN GetRuntimeFromFunction(listing) ELSE rt
    ELSE GetRuntimeFromFunction(listing)

(* --------------------------- configuration ---------------------------- *)
\* the logical names of cfg.Functions
FuncNames == {"fa", "fb", "fc"}

\* cfg.Functions[f].Code
Code(f) ==
    CASE f = "fa" -> CodeA
      [] f = "fb" -> CodeB
      [] f = "fc" -> CodeC

\* codePath of initializeRuntimes and getOutputPath (Code is already clean)
CodePath(f) ==
    Join(RootPath, Code(f))

\* functionDir of initializeRuntimes: the directory detection looks into
FunctionDir(f) ==
    Dir(CodePath(f))

\* the directories whose listings the engine reads
DirFns == FunctionDir("fa")
DirC == FunctionDir("fc")
Dirs == {FunctionDir(f) : f \in FuncNames} \cup {CodePath(f) : f \in FuncNames}

\* the configurations of the bounds: what each function declares
Configurations ==
    {[f \in FuncNames |-> CASE f = "fa" -> IdEmpty [] f = "fb" -> b [] f = "fc" -> IdRuby] :
        b \in {IdProvided, IdNode}}

\* the filesystems of the bounds: the listing of the directory detection
\* looks into for fa and fb varies, the others are fixed
Filesystems ==
    {[d \in Dirs |-> CASE d = DirFns -> x
                       [] d = DirC -> {FileAppPy}
                       [] d = CodePath("fa") -> {FileMainGo, GoMod}
                       [] d = CodePath("fb") -> {FileMainGo, FileIndexJs}
                       [] OTHER -> {}] :
        x \in {{FileMainGo}, {}}}

\* the paths that may be gone when the watches are registered (the
\* others hold files, and were listed at startup)
MayBeMissing ==
    {CodePath("fc")}

\* the events of the bounds: fsnotify.Event{Name, Op}
EventPaths ==
    {PathAMain, PathCMain, PathGitDir, PathNodeModules, PathCdkOut,
     PathSwp, PathTmpl}
EventOps ==
    {{"write"}, {"create"}, {"chmod"}, {"write", "chmod"}}


\* the identifiers and the directory listings the factory is probed with
ProbeIds ==
    {IdEmpty, IdGo, IdGoUpper, IdProvided, IdNode, IdPython, IdRuby,
     IdProvidedDash, IdProvidedNew, IdPythonUpper}
ProbeFiles ==
    {FileMainGo, PackageJson, FileIndexJs, RequirementsTxt, FileAppPy, FileReadme}

(* ------------------------------- state -------------------------------- *)
VARIABLES
    runner,           \* which package's NewLocalRunner built the object: "local" | "engine"
    declared,         \* cfg.Functions[f].Runtime
    listing,          \* directory -> the file names in it
    pc,               \* position of Start: new, resolve, build, building, gateway, watch, running, failed
    startErr,         \* the error Start returned: none, runtime, build, template, spawn
    visited,          \* functions the current range loop of Start has been through
    functionRuntimes, \* lr.functionRuntimes
    mu,               \* holder of lr.mu: free, start, reactor
    building,         \* the function whose Build is executing, or "none"
    built,            \* the functions whose Build has been invoked
    buildKind,        \* the runtime kind whose Build is executing, or NoRuntime
    apiProcess,       \* lr.apiProcess: nil, running, killed
    spawned,          \* gateway processes spawned so far
    template,         \* the CDK template, as os.Stat found it: unknown, present, missing
    envFile,          \* env.json: unknown (not looked at yet), absent, user, default
    watcherOpen,      \* lr.watcher has not been closed
    watchedDirs,      \* lr.watchedDirs
    adds,             \* per directory: successful watcher.Add calls so far
    tried,            \* the directories handed to addWatchedDir so far
    stopChan,         \* lr.stopChan: open, closed
    stopClosing,      \* Stop calls past their select and about to close the channel
    stopCalls,        \* Stop calls made
    overlapped,       \* a Stop call began while another one had not returned
    panicked,         \* the process panicked (close of a closed channel)
    reactorPc,        \* watchForChanges: none, select, rebuild, rebuilding, returned, exited
    changedFunctions, \* local slice of watchForChanges
    changeSet,        \* local map changeSet of watchForChanges
    batch,            \* argument of the handleFileChange in progress
    batchPos,         \* index of handleFileChange's loop in batch
    attempts,         \* the iterations of the handleFileChange in progress:
                      \* <<function, ok | fail | skip, accepted events of its burst>>
    timerArmed,       \* debounceTimer is running
    timerChan,        \* debounceTimer.C: empty, fresh, stale (sent before the last Reset)
    go123,            \* the build's timers: "yes" (Go 1.23 and later: Reset discards a value
                      \* already sent), "no" (earlier: it stays), "unknown" until it first shows
    nEvents,          \* events received so far
    lastEvent,        \* the latest event received: <<its path has an ignored-directory
                      \* segment or not (segment | plain), what the reactor did with it
                      \* (dropped | accepted)>>, <<>> before the first
    owed,             \* per function: bursts begun minus iterations of handleFileChange
    burstLen,         \* per function: accepted events of its burst in progress
    probeId,          \* the factory probe: a declared identifier,
    probeListing,     \* a directory listing,
    probeOut,         \* and what the factory answered: <<operation, result>>
    rtKind,           \* the Build probe: the runtime kind whose Build is called,
    buildEnv,         \* what Build finds: the function directory, the output
                      \* directory's parent and the toolchain's outcome,
    buildLog,         \* and the calls made so far: error returned, toolchain runs
    cmdPc,            \* the local command (App.runLocal): load, validate, new, start,
                      \* blocked (inside runner.Start), done
    cmdCfg,           \* the configuration config.Load returned, NoConfig before
    cmdErr,           \* the error runLocal returns: nil, load, validate, runner, start
    cmdRunner,        \* the LocalRunner of the command: none, created, started, stopped
    gwPc,             \* the gateway probe (startLocalAPI line by line): idle, template,
                      \* env, write, args, spawn, returned
    gwFs,             \* the files it meets: the template, env.json, the sam executable
    gwOut             \* and what it did: the arguments built, the process, the error

configVars == <<runner, declared, listing>>
startVars == <<pc, startErr, visited, functionRuntimes>>
buildVars == <<mu, building, built, buildKind>>
apiVars == <<apiProcess, spawned, template, envFile>>
watchVars == <<watcherOpen, watchedDirs, adds, tried>>
stopVars == <<stopChan, stopClosing, stopCalls, overlapped, panicked>>
loopVars == <<reactorPc, batch, batchPos, attempts>>
pendingVars == <<changedFunctions, changeSet, owed, burstLen>>
timerVars == <<timerArmed, timerChan, go123>>
eventVars == <<nEvents, lastEvent>>
reactorVars == <<loopVars, pendingVars, timerVars, eventVars>>
factoryVars == <<probeId, probeListing, probeOut>>
buildProbeVars == <<rtKind, buildEnv, buildLog>>
cmdVars == <<cmdPc, cmdCfg, cmdErr, cmdRunner>>
gwVars == <<gwPc, gwFs, gwOut>>
probeVars == <<factoryVars, buildProbeVars, cmdVars, gwVars>>
vars == <<configVars, startVars, buildVars, apiVars, watchVars, stopVars,
          reactorVars, probeVars>>

\* the Build probe at rest: no environment
NoEnv ==
    [files |-> {}, artefacts |-> {}, parent |-> "dir", perm |-> TRUE, tool |-> "ok"]

\* the Build probe at rest
BuildIdle ==
    /\ rtKind = NoRuntime
    /\ buildEnv = NoEnv
    /\ buildLog = <<>>

\* no configuration loaded
NoConfig ==
    [service |-> <<>>, stage |-> <<>>, functions |-> <<>>]

\* the local command before it runs
CmdIdle ==
    /\ cmdPc = "load"
    /\ cmdCfg = NoConfig
    /\ cmdErr = "nil"
    /\ cmdRunner = "none"

\* startLocalAPI has built no argument list, spawned nothing, returned nothing
NoGateway ==
    [args |-> <<>>, process |-> "nil", err |-> "none", warned |-> FALSE]

\* the gateway probe at rest
GwIdle ==
    /\ gwPc = "idle"
    /\ gwFs = [template |-> "present", env |-> "absent", stat |-> TRUE, writable |-> TRUE, sam |-> TRUE]
    /\ gwOut = NoGateway

\* the state NewLocalRunner leaves, whatever the configuration
Constructed ==
    /\ pc = "new"
    /\ startErr = "none"
    /\ visited = {}
    /\ functionRuntimes = [f \in FuncNames |-> NoRuntime]
    /\ mu = "free"
    /\ building = "none"
    /\ built = {}
    /\ buildKind = NoRuntime
    /\ apiProcess = "nil"
    /\ spawned = 0
    /\ template = "unknown"
    /\ envFile = "unknown"
    /\ watcherOpen = TRUE
    /\ watchedDirs = {}
    /\ adds = [d \in Dirs |-> 0]
    /\ tried = {}
    /\ stopChan = "open"
    /\ stopClosing = 0
    /\ stopCalls = 0
    /\ overlapped = FALSE
    /\ panicked = FALSE
    /\ reactorPc = "none"
    /\ changedFunctions = <<>>
    /\ changeSet = [f \in FuncNames |-> FALSE]
    /\ batch = <<>>
    /\ batchPos = 0
    /\ attempts = <<>>
    /\ timerArmed = FALSE
    /\ timerChan = "empty"
    /\ go123 = "unknown"
    /\ nEvents = 0
    /\ lastEvent = <<>>
    /\ owed = [f \in FuncNames |-> 0]
    /\ burstLen = [f \in FuncNames |-> 0]

\* NewLocalRunner, for every configuration and filesystem of the bounds
Init ==
    /\ runner \in {"local", "engine"}
    /\ declared \in Configurations
    /\ listing \in Filesystems
    /\ Constructed
    /\ probeId = IdEmpty
    /\ probeListing = {}
    /\ probeOut = <<>>
    /\ BuildIdle
    /\ CmdIdle
    /\ GwIdle

\* the process is running the local package's runner and has not panicked
Live ==
    runner = "local" /\ ~panicked

(* ------------------------------ Start --------------------------------- *)
\* Start, up to the call of initializeRuntimes (debugFunctionInfo only logs)
Start ==
    /\ Live
    /\ pc = "new"
    /\ pc' = "resolve"
    /\ visited' = {}
    /\ UNCHANGED <<configVars, startErr, functionRuntimes, buildVars, apiVars,
                   watchVars, stopVars, reactorVars, probeVars>>

\* a faulty variant of AfterResolve: initializeRuntimes returns nil after its
\* first iteration
AfterResolveFirst(v) ==
    "build"

\* where Start stands after an iteration of initializeRuntimes that
\* resolved a runtime: the loop goes on, or it returns nil and Start calls
\* buildAllFunctions
AfterResolve(v) ==
    IF v = FuncNames THEN "build" ELSE "resolve"

\* one iteration of the loop of initializeRuntimes (range over a map: any
\* order), with Start's return when it fails
initializeRuntimes(f) ==
    /\ Live
    /\ pc = "resolve"
    /\ f \notin visited
    /\ LET rt == ResolveRuntime(declared[f], listing[FunctionDir(f)])
       IN  IF rt = ErrRuntime
           THEN /\ pc' = "failed"
                /\ startErr' = "runtime"
                /\ UNCHANGED <<visited, functionRuntimes>>
           ELSE /\ functionRuntimes' = [functionRuntimes EXCEPT ![f] = rt]
                /\ pc' = AfterResolve(visited \cup {f})
                /\ visited' = IF pc' = "resolve" THEN visited \cup {f} ELSE {}
                /\ UNCHANGED startErr
    /\ UNCHANGED <<configVars, buildVars, apiVars, watchVars, stopVars,
                   reactorVars, probeVars>>

\* a faulty variant of AfterBuild: after the build pass Start goes straight
\* to the watch registration
AfterBuildSkipsGateway(v) ==
    IF v = FuncNames THEN "watch" ELSE "build"

\* where Start stands after an iteration of buildAllFunctions that did not
\* fail: the loop goes on, or it returns nil and Start calls startLocalAPI
AfterBuild(v) ==
    IF v = FuncNames THEN "gateway" ELSE "build"

\* an iteration of buildAllFunctions for a function whose runtime needs no
\* build: the skip is logged
buildAllFunctionsSkip(f) ==
    /\ Live
    /\ pc = "build"
    /\ f \notin visited
    /\ ~NeedsBuild(functionRuntimes[f])
    /\ pc' = AfterBuild(visited \cup {f})
    /\ visited' = IF pc' = "build" THEN visited \cup {f} ELSE {}
    /\ UNCHANGED <<configVars, startErr, functionRuntimes, buildVars, apiVars,
                   watchVars, stopVars, reactorVars, probeVars>>

\* a faulty variant of Lock: buildFunction goes on without taking lr.mu
LockSkipped(holder) ==
    "free"

\* lr.mu.Lock() of buildFunction: the holder of lr.mu afterwards
Lock(holder) ==
    holder

\* a faulty variant of Unlock: lr.mu is released on the success path only
UnlockOnSuccess(holder, ok) ==
    IF ok THEN "free" ELSE holder

\* the deferred lr.mu.Unlock() of buildFunction, which runs whatever
\* rt.Build returned: the holder of lr.mu afterwards
Unlock(holder, ok) ==
    "free"

\* an iteration of buildAllFunctions that calls buildFunction: lr.mu is
\* taken and rt.Build is invoked
buildAllFunctionsBuild(f) ==
    /\ Live
    /\ pc = "build"
    /\ f \notin visited
    /\ NeedsBuild(functionRuntimes[f])
    /\ mu = "free"
    /\ mu' = Lock("start")
    /\ building' = f
    /\ buildKind' = functionRuntimes[f]
    /\ built' = built \cup {f}
    /\ pc' = "building"
    /\ UNCHANGED <<configVars, startErr, visited, functionRuntimes, apiVars,
                   watchVars, stopVars, reactorVars, probeVars>>

\* a faulty variant of BuildPassAfterFailure: the failure is only logged and
\* the loop of buildAllFunctions goes on
BuildPassContinues(v) ==
    AfterBuild(v)

\* where Start stands after a failed build of the initial pass:
\* buildAllFunctions returns the error at once and Start returns it
BuildPassAfterFailure(v) ==
    "failed"

\* rt.Build returns inside buildFunction: the deferred Unlock runs, and
\* buildAllFunctions goes on (success) or returns the error (failure)
buildAllFunctionsBuilt(ok) ==
    /\ Live
    /\ pc = "building"
    /\ mu' = Unlock(mu, ok)
    /\ building' = "none"
    /\ buildKind' = NoRuntime
    /\ IF ok
       THEN /\ pc' = AfterBuild(visited \cup {building})
            /\ UNCHANGED startErr
       ELSE /\ pc' = BuildPassAfterFailure(visited \cup {building})
            /\ startErr' = "build"
    /\ visited' = IF pc' = "build" THEN visited \cup {building} ELSE {}
    /\ UNCHANGED <<configVars, functionRuntimes, built, apiVars, watchVars,
                   stopVars, reactorVars, probeVars>>

\* a faulty variant of GatewayAfterStat: a missing template is not looked for and
\* the gateway is spawned without it
GatewayIgnoresTemplate(templateExists) ==
    "spawn"

\* what startLocalAPI does after os.Stat of the template: it returns the
\* error when the file does not exist, and goes on otherwise
GatewayAfterStat(templateExists) ==
    IF ~templateExists THEN "return" ELSE "spawn"

\* startLocalAPI and Start's handling of its result.  The template, the
\* env.json file and the sam executable are the filesystem's: any of them
\* may be there or not.
startLocalAPI(templateExists, envExists, envWriteOk, spawnOk) ==
    /\ Live
    /\ pc = "gateway"
    /\ template' = IF templateExists THEN "present" ELSE "missing"
    /\ IF GatewayAfterStat(templateExists) = "return"
       THEN /\ pc' = "failed"
            /\ startErr' = "template"
            /\ UNCHANGED <<apiProcess, spawned, envFile>>
       ELSE /\ envFile' = IF envExists THEN "user"
                          ELSE IF envWriteOk THEN "default" ELSE "absent"
            /\ IF spawnOk
               THEN /\ apiProcess' = "running"
                    /\ spawned' = spawned + 1
                    /\ pc' = "watch"
                    /\ UNCHANGED startErr
               ELSE /\ pc' = "failed"
                    /\ startErr' = "spawn"
                    /\ UNCHANGED <<apiProcess, spawned>>
    /\ UNCHANGED <<configVars, visited, functionRuntimes, buildVars, watchVars,
                   stopVars, reactorVars, probeVars>>

\* the file names of a listing that one of a runtime's WatchPatterns matches
PatternMatches(rt, names) ==
    {n \in names : n \in WatchNames(rt) \/ \E s \in WatchSuffixes(rt) : HasSuffix(n, s)}

\* the directories an iteration of setupFileWatchers hands to addWatchedDir
\* after the function's code path: filepath.Dir of every glob match
PatternDirs(f) ==
    LET root == CodePath(f)
    IN  {Dir(Join(root, n)) : n \in PatternMatches(functionRuntimes[f], listing[root])}

\* a faulty variant of AlreadyWatching: the watched set is not consulted
AlreadyWatchingNever(dirs, dirPath) ==
    FALSE

\* the test that opens addWatchedDir: the directory is in watchedDirs
AlreadyWatching(dirs, dirPath) ==
    dirPath \in dirs

\* addWatchedDir on the watch state st (dirs: watchedDirs, adds and tried:
\* the counts, err: the error it returns): nil for a directory already
\* watched; otherwise watcher.Add, whose answer is addOk, and the
\* directory enters watchedDirs only when Add succeeded
addWatchedDir(st, dirPath, addOk) ==
    LET t == [st EXCEPT !.tried = @ \cup {dirPath}]
    IN  IF AlreadyWatching(t.dirs, dirPath)
        THEN [t EXCEPT !.err = FALSE]
        ELSE IF addOk
             THEN [t EXCEPT !.dirs = @ \cup {dirPath}, !.adds[dirPath] = @ + 1, !.err = FALSE]
             ELSE [t EXCEPT !.err = TRUE]

\* the pattern loops of one iteration of setupFileWatchers: addWatchedDir
\* on filepath.Dir of every glob match, a failure only logged
RECURSIVE addMatches(_, _, _)
addMatches(st, matches, addOk) ==
    IF matches = {}
    THEN st
    ELSE LET m == CHOOSE x \in matches : TRUE
         IN  addMatches(addWatchedDir(st, Dir(m), addOk), matches \ {m}, addOk)

\* a faulty variant of WatchAfterFailure: the failure is returned to Start
WatchAbortsOnFailure(f) ==
    "return"

\* what setupFileWatchers does when addWatchedDir fails for the code path
\* of function f: it logs and goes on with the next function
WatchAfterFailure(f) ==
    "continue"

\* one iteration of setupFileWatchers: addWatchedDir for the function's
\* code path and, when that succeeded, for the directory of every match
\* of the runtime's watch patterns.  addOk is watcher.Add's answer, which
\* is an error on a closed watcher.  After the last iteration the reactor
\* goroutine is started, setupFileWatchers returns nil and Start blocks
\* in keepAlive.
setupFileWatchers(f, addOk) ==
    /\ Live
    /\ pc = "watch"
    /\ f \notin visited
    /\ LET root == CodePath(f)
           ok == addOk /\ watcherOpen
           st0 == [dirs |-> watchedDirs, adds |-> adds, tried |-> tried, err |-> FALSE]
           st1 == addWatchedDir(st0, root, ok)
           st2 == IF st1.err
                  THEN st1
                  ELSE addMatches(st1, {Join(root, n) : n \in PatternMatches(functionRuntimes[f], listing[root])}, ok)
       IN  /\ watchedDirs' = st2.dirs
           /\ adds' = st2.adds
           /\ tried' = st2.tried
           /\ IF st1.err /\ WatchAfterFailure(f) = "return"
              THEN /\ pc' = "failed"
                   /\ startErr' = "watch"
                   /\ visited' = {}
                   /\ UNCHANGED reactorPc
              ELSE /\ UNCHANGED startErr
                   /\ IF visited \cup {f} = FuncNames
                      THEN /\ pc' = "running"
                           /\ visited' = {}
                           /\ reactorPc' = "select"
                      ELSE /\ visited' = visited \cup {f}
                           /\ UNCHANGED <<pc, reactorPc>>
    /\ UNCHANGED <<configVars, functionRuntimes, buildVars, apiVars,
                   watcherOpen, stopVars, batch, batchPos, attempts, pendingVars,
                   timerVars, eventVars, probeVars>>

(* ------------------------------- Stop --------------------------------- *)
\* apiProcess.Kill() under the nil check of Stop: the handle is kept
Kill(p) ==
    IF p = "nil" THEN "nil" ELSE "killed"

\* the select of the local package's Stop: a receive on a closed stopChan
\* is ready ("Already closed"), on an open one the default case runs
StopSelect(ch) ==
    IF ch = "closed" THEN "skip" ELSE "close"

\* Stop of the local package's runner, from its call to the end of its
\* select; when the channel is already closed the rest of Stop follows at
\* once: Kill under the nil check, watcher.Close
StopCall ==
    /\ Live
    /\ stopCalls < MaxStops
    /\ stopCalls' = stopCalls + 1
    /\ overlapped' = (overlapped \/ stopClosing > 0)
    /\ IF StopSelect(stopChan) = "skip"
       THEN /\ apiProcess' = Kill(apiProcess)
            /\ watcherOpen' = FALSE
            /\ UNCHANGED stopClosing
       ELSE /\ stopClosing' = stopClosing + 1
            /\ UNCHANGED <<apiProcess, watcherOpen>>
    /\ UNCHANGED <<configVars, startVars, buildVars, spawned, template, envFile, watchedDirs, adds, tried,
                   stopChan, panicked, reactorVars, probeVars>>

\* a faulty variant of StartAfterStop: keepAlive waits on lr.stopChan and Start
\* returns nil once it is closed
StartReturnsOnStop(p) ==
    IF p = "running" THEN "returned" ELSE p

\* where Start stands after lr.stopChan was closed: where it stood, for
\* keepAlive receives from a channel of its own that nothing sends on or
\* closes, not from lr.stopChan
StartAfterStop(p) ==
    p

\* the default case of Stop's select, close(lr.stopChan), which panics on
\* a closed channel, and the rest of Stop
StopClose ==
    /\ Live
    /\ stopClosing > 0
    /\ IF stopChan = "closed"
       THEN /\ panicked' = TRUE
            /\ UNCHANGED <<stopChan, stopClosing, apiProcess, watcherOpen, pc>>
       ELSE /\ stopChan' = "closed"
            /\ pc' = StartAfterStop(pc)
            /\ apiProcess' = Kill(apiProcess)
            /\ watcherOpen' = FALSE
            /\ stopClosing' = stopClosing - 1
            /\ UNCHANGED panicked
    /\ UNCHANGED <<configVars, startErr, visited, functionRuntimes, buildVars, spawned, template,
                   envFile, watchedDirs, adds, tried,
                   stopCalls, overlapped, reactorVars, probeVars>>

\* Stop of the engine package's runner (the one cmd/qriosls wires in):
\* close(lr.stopChan) with no guard, then Kill under the nil check and
\* watcher.Close
LegacyStop ==
    /\ runner = "engine"
    /\ ~panicked
    /\ stopCalls < MaxStops
    /\ stopCalls' = stopCalls + 1
    /\ IF stopChan = "closed"
       THEN /\ panicked' = TRUE
            /\ UNCHANGED <<stopChan, apiProcess, watcherOpen, pc>>
       ELSE /\ stopChan' = "closed"
            /\ pc' = StartAfterStop(pc)
            /\ apiProcess' = Kill(apiProcess)
            /\ watcherOpen' = FALSE
            /\ UNCHANGED panicked
    /\ UNCHANGED <<configVars, startErr, visited, functionRuntimes, buildVars, spawned, template,
                   envFile, watchedDirs, adds, tried,
                   stopClosing, overlapped, reactorVars, probeVars>>

(* ------------------------------ reactor ------------------------------- *)
\* shouldIgnoreEvent: some pattern is contained in the event's name or is
\* a suffix of its base name
shouldIgnoreEvent(name) ==
    \E pattern \in {PatTilde, PatSwp, PatTmp, PatLog, PatGitSeg, PatNodeSeg, PatIdea} :
        Contains(name, pattern) \/ HasSuffix(Base(name), pattern)

\* a faulty variant of shouldIgnorePath: the list holds the dependency cache only
shouldIgnorePathNodeOnly(path) ==
    \E dir \in {DirNodeModules} : Contains(path, dir)

\* shouldIgnorePath
shouldIgnorePath(path) ==
    \E dir \in {DirGit, DirNodeModules, DirCdkOut, DirTmp} : Contains(path, dir)

\* the functions for which the condition of findFunctionByPath's loop holds
Owners(filePath) ==
    {f \in FuncNames :
        /\ HasPrefix(filePath, Join(RootPath, Dir(Code(f))))
        /\ ~shouldIgnorePath(filePath)}

\* Owners and shouldIgnoreEvent, for every path of the bounds
OwnerTable ==
    [p \in EventPaths |-> Owners(p)]
IgnoreTable ==
    [p \in EventPaths |-> shouldIgnoreEvent(p)]

\* the values findFunctionByPath may return: the first function of the
\* map's iteration order for which the condition holds, "" when none does
findFunctionByPath(filePath) ==
    IF OwnerTable[filePath] = {} THEN {""} ELSE OwnerTable[filePath]

\* the events the watcher delivers: fsnotify does not watch recursively,
\* so they are for a path it was given or for an entry of such a directory
Delivered(name) ==
    name \in watchedDirs \/ Dir(name) \in watchedDirs

\* the path has a segment that names an ignored directory: version
\* control metadata, the dependency cache, the build-output staging area
HasIgnoredSegment(name) ==
    \E d \in {DirGit, DirNodeModules, DirCdkOut} :
        \/ Contains(name, <<"/">> \o d \o <<"/">>)
        \/ HasSuffix(name, <<"/">> \o d)
SegmentTable ==
    [p \in EventPaths |-> HasIgnoredSegment(p)]
EventClass(name) ==
    IF SegmentTable[name] THEN "segment" ELSE "plain"

\* a faulty variant of AtSelect: the cases of the select are also taken
\* while a Build of the batch is executing
AtSelectOrBuilding ==
    Live /\ reactorPc \in {"select", "rebuilding"}

\* the reactor goroutine is at its select
AtSelect ==
    Live /\ reactorPc = "select"

\* a faulty variant of Pending: the function is appended whether or not changeSet
\* already holds it
PendingNoDedup(cf, f) ==
    Append(cf, f)

\* changedFunctions after an accepted event of function f
Pending(cf, f) ==
    IF changeSet[f] THEN cf ELSE Append(cf, f)

\* a faulty variant of IsChmod: no operation is taken for a permission change
IsChmodNever(op) ==
    FALSE

\* the test event.Op == fsnotify.Chmod of the event case: the operation
\* is the permission-change bit and no other
IsChmod(op) ==
    op = {"chmod"}

\* the test of the event case on what findFunctionByPath returned
Accepts(funcName) ==
    funcName # ""

\* a faulty variant of Reset: the timer is left as it was
ResetSkipped(armed) ==
    armed

\* debounceTimer.Reset(800 * time.Millisecond): the timer runs afterwards,
\* whether it was running, had fired or had never been started
Reset(armed) ==
    TRUE

\* debounceTimer.C after debounceTimer.Reset under the timers of Go
\* version v: a value sent before the Reset stays in the channel with the
\* timers before Go 1.23, and is discarded with the later ones
ChanAfterReset(ch, v) ==
    IF ch = "empty" \/ v = "yes" THEN "empty" ELSE "stale"

\* the Go versions the build may have, which show when a Reset finds a
\* value in the channel
Versions(ch) ==
    IF ch = "empty" \/ go123 # "unknown" THEN {go123} ELSE {"yes", "no"}

\* a faulty variant of WatchedAfterEvent: a created entry is registered with
\* the watcher, as the engine package's watchSubdirectories would
WatchedAfterCreate(dirs, name, op) ==
    IF "create" \in op THEN dirs \cup {name} ELSE dirs

\* lr.watchedDirs after the event case: the case makes no call of
\* addWatchedDir, for a created directory no more than for a file
WatchedAfterEvent(dirs, name, op) ==
    dirs

\* case event, ok := <-lr.watcher.Events, with ok true.  funcName is what
\* findFunctionByPath returns.  (On a Create event handleFileCreation
\* first copies the file into the staging directory of the function it
\* resolves; the engine never reads that directory back.)
EventsRecv(name, op, funcName) ==
    /\ AtSelect
    /\ watcherOpen
    /\ Delivered(name)
    /\ nEvents < MaxEvents
    /\ nEvents' = nEvents + 1
    /\ IF IsChmod(op) \/ IgnoreTable[name]
       THEN /\ lastEvent' = <<EventClass(name), "dropped">>
            /\ UNCHANGED <<pendingVars, timerVars>>
       ELSE IF Accepts(funcName)
            THEN /\ lastEvent' = <<EventClass(name), "accepted">>
                 /\ changedFunctions' = Pending(changedFunctions, funcName)
                 /\ changeSet' = [changeSet EXCEPT ![funcName] = TRUE]
                 /\ timerArmed' = Reset(timerArmed)
                 /\ \E v \in Versions(timerChan) :
                       /\ go123' = v
                       /\ timerChan' = ChanAfterReset(timerChan, v)
                 /\ owed' = IF changeSet[funcName] THEN owed
                            ELSE [owed EXCEPT ![funcName] = @ + 1]
                 /\ burstLen' = [burstLen EXCEPT ![funcName] = @ + 1]
            ELSE /\ lastEvent' = <<EventClass(name), "dropped">>
                 /\ UNCHANGED <<pendingVars, timerVars>>
    /\ watchedDirs' = WatchedAfterEvent(watchedDirs, name, op)
    /\ UNCHANGED <<configVars, startVars, buildVars, apiVars, watcherOpen, adds, tried,
                   stopVars, loopVars, probeVars>>

\* the runtime fires the armed timer: a value is sent on debounceTimer.C
\* (its buffer holds one value; a send to the full buffer is dropped)
TimerFire ==
    /\ Live
    /\ timerArmed
    /\ timerArmed' = FALSE
    /\ timerChan' = "fresh"
    /\ UNCHANGED <<configVars, startVars, buildVars, apiVars, watchVars, stopVars,
                   loopVars, pendingVars, go123, eventVars, probeVars>>

\* case <-debounceTimer.C: with functions pending, handleFileChange is
\* called with them
TimerRecv ==
    /\ AtSelect
    /\ timerChan # "empty"
    /\ timerChan' = "empty"
    /\ IF Len(changedFunctions) > 0
       THEN /\ reactorPc' = "rebuild"
            /\ batch' = changedFunctions
            /\ batchPos' = 1
            /\ attempts' = <<>>
       ELSE UNCHANGED loopVars
    /\ UNCHANGED <<configVars, startVars, buildVars, apiVars, watchVars, stopVars,
                   pendingVars, timerArmed, go123, eventVars, probeVars>>

\* a faulty variant of RebuildAfterFailure: handleFileChange returns at the first
\* failed build, as buildAllFunctions does
RebuildStopsAtFailure(pos) ==
    Len(batch)

\* the index handleFileChange's loop stands at after a failed build: the
\* failure is logged and the loop goes on from the same place
RebuildAfterFailure(pos) ==
    pos

\* the end of the iteration of handleFileChange's loop for batch[batchPos]
\* with outcome out, the loop standing at pos: the next iteration, or the
\* return to the timer case
EndIteration(out, pos) ==
    LET f == batch[batchPos]
    IN  /\ attempts' = Append(attempts, <<f, out, burstLen[f]>>)
        /\ owed' = [owed EXCEPT ![f] = @ - 1]
        /\ burstLen' = [burstLen EXCEPT ![f] = 0]
        /\ IF pos = Len(batch)
           THEN /\ reactorPc' = "returned"
                /\ UNCHANGED batchPos
           ELSE /\ reactorPc' = "rebuild"
                /\ batchPos' = pos + 1
        /\ UNCHANGED <<batch, changedFunctions, changeSet>>

\* a faulty variant of RebuildRuntime: the rebuild takes the compiled kind
\* whatever the function was resolved to
RebuildRuntimeGolang(f) ==
    Golang

\* the runtime handleFileChange rebuilds function f with: the entry of
\* functionRuntimes written at startup
RebuildRuntime(f) ==
    functionRuntimes[f]

\* an iteration of handleFileChange for a function whose runtime needs no
\* build
handleFileChangeSkip ==
    /\ Live
    /\ reactorPc = "rebuild"
    /\ ~NeedsBuild(RebuildRuntime(batch[batchPos]))
    /\ EndIteration("skip", batchPos)
    /\ UNCHANGED <<configVars, startVars, buildVars, apiVars, watchVars, stopVars,
                   timerVars, eventVars, probeVars>>

\* an iteration of handleFileChange that calls buildFunction: lr.mu is
\* taken and rt.Build is invoked
handleFileChangeBuild ==
    /\ Live
    /\ reactorPc = "rebuild"
    /\ NeedsBuild(RebuildRuntime(batch[batchPos]))
    /\ mu = "free"
    /\ mu' = Lock("reactor")
    /\ building' = batch[batchPos]
    /\ buildKind' = RebuildRuntime(batch[batchPos])
    /\ built' = built \cup {batch[batchPos]}
    /\ reactorPc' = "rebuilding"
    /\ UNCHANGED <<configVars, startVars, apiVars, watchVars, stopVars,
                   batch, batchPos, attempts, pendingVars, timerVars, eventVars,
                   probeVars>>

\* rt.Build returns inside buildFunction called by handleFileChange: the
\* deferred Unlock runs and the outcome is logged
handleFileChangeBuilt(ok) ==
    /\ Live
    /\ reactorPc = "rebuilding"
    /\ mu' = Unlock(mu, ok)
    /\ building' = "none"
    /\ buildKind' = NoRuntime
    /\ IF ok
       THEN EndIteration("ok", batchPos)
       ELSE EndIteration("fail", RebuildAfterFailure(batchPos))
    /\ UNCHANGED <<configVars, startVars, built, apiVars, watchVars, stopVars,
                   timerVars, eventVars, probeVars>>

\* a faulty variant of AfterBatch: watchForChanges returns when a build of
\* the batch failed
AfterBatchStopsOnFailure(att) ==
    IF \E i \in DOMAIN att : att[i][2] = "fail" THEN "exited" ELSE "select"

\* where watchForChanges stands after the timer case: back at the select
\* of its loop, whatever the iterations of handleFileChange logged
AfterBatch(att) ==
    "select"

\* the end of the timer case after handleFileChange has returned:
\* changedFunctions and changeSet are emptied and the loop is back at its
\* select
TimerCaseEnd ==
    /\ Live
    /\ reactorPc = "returned"
    /\ reactorPc' = AfterBatch(attempts)
    /\ changedFunctions' = <<>>
    /\ changeSet' = [g \in FuncNames |-> FALSE]
    /\ batch' = <<>>
    /\ batchPos' = 0
    /\ attempts' = <<>>
    /\ UNCHANGED <<configVars, startVars, buildVars, apiVars, watchVars, stopVars,
                   owed, burstLen, timerVars, eventVars, probeVars>>

\* case err, ok := <-lr.watcher.Errors, with ok true: the error is logged
ErrorsRecv ==
    /\ AtSelect
    /\ watcherOpen
    /\ UNCHANGED vars

\* a receive from lr.watcher.Events or lr.watcher.Errors with ok false (the
\* watcher was closed): watchForChanges returns, and its deferred
\* debounceTimer.Stop runs
ChannelClosed ==
    /\ AtSelect
    /\ ~watcherOpen
    /\ reactorPc' = "exited"
    /\ timerArmed' = FALSE
    /\ UNCHANGED <<configVars, startVars, buildVars, apiVars, watchVars, stopVars,
                   batch, batchPos, attempts, pendingVars, timerChan, go123,
                   eventVars, probeVars>>

\* case <-lr.stopChan: watchForChanges returns
StopRecv ==
    /\ AtSelect
    /\ stopChan = "closed"
    /\ reactorPc' = "exited"
    /\ timerArmed' = FALSE
    /\ UNCHANGED <<configVars, startVars, buildVars, apiVars, watchVars, stopVars,
                   batch, batchPos, attempts, pendingVars, timerChan, go123,
                   eventVars, probeVars>>

(* --------------------------- specification ---------------------------- *)
\* the events the watcher may deliver, with what findFunctionByPath may
\* answer for each
ReceiveEvent ==
    \E name \in EventPaths, op \in EventOps :
        \E funcName \in findFunctionByPath(name) :
            EventsRecv(name, op, funcName)

Next ==
    \/ Start
    \/ \E f \in FuncNames : initializeRuntimes(f)
    \/ \E f \in FuncNames : buildAllFunctionsSkip(f)
    \/ \E f \in FuncNames : buildAllFunctionsBuild(f)
    \/ \E ok \in BOOLEAN : buildAllFunctionsBuilt(ok)
    \/ \E t, e, w, s \in BOOLEAN : startLocalAPI(t, e, w, s)
    \/ \E f \in FuncNames :
         \E addOk \in (IF CodePath(f) \in MayBeMissing THEN BOOLEAN ELSE {TRUE}) :
            setupFileWatchers(f, addOk)
    \/ StopCall
    \/ StopClose
    \/ LegacyStop
    \/ ReceiveEvent
    \/ TimerFire
    \/ TimerRecv
    \/ handleFileChangeSkip
    \/ handleFileChangeBuild
    \/ \E ok \in BOOLEAN : handleFileChangeBuilt(ok)
    \/ TimerCaseEnd
    \/ ErrorsRecv
    \/ ChannelClosed
    \/ StopRecv

Spec ==
    Init /\ [][Next]_vars

\* the steps of a run in which Stop is never called, so that the stop
\* channel and the watcher stay open
UnstoppedNext ==
    \/ Start
    \/ \E f \in FuncNames : initializeRuntimes(f)
    \/ \E f \in FuncNames : buildAllFunctionsSkip(f)
    \/ \E f \in FuncNames : buildAllFunctionsBuild(f)
    \/ \E ok \in BOOLEAN : buildAllFunctionsBuilt(ok)
    \/ \E t, e, w, s \in BOOLEAN : startLocalAPI(t, e, w, s)
    \/ \E f \in FuncNames :
         \E addOk \in (IF CodePath(f) \in MayBeMissing THEN BOOLEAN ELSE {TRUE}) :
            setupFileWatchers(f, addOk)
    \/ ReceiveEvent
    \/ TimerFire
    \/ TimerRecv
    \/ handleFileChangeSkip
    \/ handleFileChangeBuild
    \/ \E ok \in BOOLEAN : handleFileChangeBuilt(ok)
    \/ TimerCaseEnd
    \/ ErrorsRecv

\* the reactor under the scheduling the Go runtime gives it: a timer that
\* runs fires when its delay is over, and a goroutine blocked in select
\* with a value on debounceTimer.C is scheduled and, select choosing
\* among its ready cases at random, takes the timer case in the end
FairSpec ==
    Init /\ [][UnstoppedNext]_vars /\ WF_vars(TimerFire) /\ WF_vars(TimerRecv)

(* ----------------------- the factory on its own ----------------------- *)
\* every declared identifier and every directory listing of the bounds
ProbeInit ==
    /\ runner = "local"
    /\ declared \in Configurations
    /\ listing \in Filesystems
    /\ Constructed
    /\ probeId \in ProbeIds
    /\ probeListing \in SUBSET ProbeFiles
    /\ probeOut = <<>>
    /\ BuildIdle
    /\ CmdIdle
    /\ GwIdle

\* a call of RuntimeFactory.GetRuntime
ProbeGetRuntime ==
    /\ probeOut = <<>>
    /\ probeOut' = <<"GetRuntime", GetRuntime(probeId)>>
    /\ UNCHANGED <<configVars, startVars, buildVars, apiVars, watchVars, stopVars,
                   reactorVars, probeId, probeListing, buildProbeVars, cmdVars, gwVars>>

\* a call of RuntimeFactory.GetRuntimeFromFunction
ProbeGetRuntimeFromFunction ==
    /\ probeOut = <<>>
    /\ probeOut' = <<"GetRuntimeFromFunction", GetRuntimeFromFunction(probeListing)>>
    /\ UNCHANGED <<configVars, startVars, buildVars, apiVars, watchVars, stopVars,
                   reactorVars, probeId, probeListing, buildProbeVars, cmdVars, gwVars>>

\* the body of the loop of initializeRuntimes
ProbeResolveRuntime ==
    /\ probeOut = <<>>
    /\ probeOut' = <<"ResolveRuntime", ResolveRuntime(probeId, probeListing)>>
    /\ UNCHANGED <<configVars, startVars, buildVars, apiVars, watchVars, stopVars,
                   reactorVars, probeId, probeListing, buildProbeVars, cmdVars, gwVars>>

\* a call of LocalRunner.findFunctionByPath on a path of the bounds
ProbeFindFunctionByPath ==
    /\ probeOut = <<>>
    /\ \E filePath \in EventPaths : \E funcName \in findFunctionByPath(filePath) :
          probeOut' = <<"findFunctionByPath", filePath, funcName>>
    /\ UNCHANGED <<configVars, startVars, buildVars, apiVars, watchVars, stopVars,
                   reactorVars, probeId, probeListing, buildProbeVars, cmdVars, gwVars>>

\* the event case of watchForChanges on one event of the bounds, with
\* handleFileCreation: an event that is not dropped and has the Create bit
\* has its file copied by util.CopyCode into the asset directory named by
\* the hash of the function handleFileCreation's own findFunctionByPath
\* answers, the error of the copy only logged; then the event case asks
\* findFunctionByPath again for the function it makes pending.  What is
\* recorded: the function staged for ("" when no copy was tried), the
\* outcome of the copy, the function made pending ("" when none).
ProbeEventCase ==
    /\ probeOut = <<>>
    /\ \E name \in EventPaths, op \in EventOps, copyOk \in BOOLEAN :
          IF IsChmod(op) \/ IgnoreTable[name]
          THEN probeOut' = <<"event", name, op, "", "none", "">>
          ELSE \E staged \in findFunctionByPath(name), funcName \in findFunctionByPath(name) :
                  probeOut' = <<"event", name, op,
                                IF "create" \in op THEN staged ELSE "",
                                IF "create" \in op /\ staged # ""
                                THEN (IF copyOk THEN "ok" ELSE "failed") ELSE "none",
                                funcName>>
    /\ UNCHANGED <<configVars, startVars, buildVars, apiVars, watchVars, stopVars,
                   reactorVars, probeId, probeListing, buildProbeVars, cmdVars, gwVars>>

ProbeNext ==
    \/ ProbeGetRuntime
    \/ ProbeGetRuntimeFromFunction
    \/ ProbeResolveRuntime
    \/ ProbeFindFunctionByPath
    \/ ProbeEventCase

ProbeSpec ==
    ProbeInit /\ [][ProbeNext]_vars

(* ------------------------- Build on its own ------------------------- *)
\* the environments of a Build: the files of the function directory that
\* decide an install step, the artefacts earlier builds left there, the
\* parent of the output path (a directory, missing, or a file in the way),
\* whether the process may create directories, and the outcome of the
\* toolchain (go build, npm install, pip install) on this source
BuildEnvs ==
    [files : SUBSET {PackageJson, RequirementsTxt},
     artefacts : SUBSET {"bootstrap"},
     parent : {"dir", "missing", "file"},
     perm : BOOLEAN,
     tool : {"ok", "fail"}]

\* a faulty variant of GolangRuntimeBuild: a bootstrap binary already there
\* is taken for the result and go build is not run
GolangRuntimeBuildCached(env) ==
    IF env.parent = "file" \/ (env.parent = "missing" /\ ~env.perm)
    THEN [err |-> "mkdir", runs |-> 0, env |-> env]
    ELSE LET made == [env EXCEPT !.parent = "dir"]
         IN  IF "bootstrap" \in env.artefacts
             THEN [err |-> "nil", runs |-> 0, env |-> made]
             ELSE IF env.tool = "fail"
                  THEN [err |-> "tool", runs |-> 1, env |-> made]
                  ELSE [err |-> "nil", runs |-> 1,
                        env |-> [made EXCEPT !.artefacts = @ \cup {"bootstrap"}]]

\* GolangRuntime.Build: MkdirAll of the output path's parent, whose failure
\* is returned, then go build -o <output>/bootstrap, whose failure is
\* returned; what it answers: the error, the toolchain runs, the
\* environment it leaves
GolangRuntimeBuild(env) ==
    IF env.parent = "file" \/ (env.parent = "missing" /\ ~env.perm)
    THEN [err |-> "mkdir", runs |-> 0, env |-> env]
    ELSE LET made == [env EXCEPT !.parent = "dir"]
         IN  IF env.tool = "fail"
             THEN [err |-> "tool", runs |-> 1, env |-> made]
             ELSE [err |-> "nil", runs |-> 1,
                   env |-> [made EXCEPT !.artefacts = @ \cup {"bootstrap"}]]

\* NodeJSRuntime.Build: npm install when package.json is in the function
\* directory, its failure returned; nil otherwise
NodeJSRuntimeBuild(env) ==
    IF PackageJson \in env.files
    THEN IF env.tool = "fail"
         THEN [err |-> "tool", runs |-> 1, env |-> env]
         ELSE [err |-> "nil", runs |-> 1,
               env |-> [env EXCEPT !.artefacts = @ \cup {"node_modules"}]]
    ELSE [err |-> "nil", runs |-> 0, env |-> env]

\* PythonRuntime.Build: pip install -r requirements.txt -t <directory> when
\* requirements.txt is in the function directory, its failure returned;
\* nil otherwise
PythonRuntimeBuild(env) ==
    IF RequirementsTxt \in env.files
    THEN IF env.tool = "fail"
         THEN [err |-> "tool", runs |-> 1, env |-> env]
         ELSE [err |-> "nil", runs |-> 1,
               env |-> [env EXCEPT !.artefacts = @ \cup {"site-packages"}]]
    ELSE [err |-> "nil", runs |-> 0, env |-> env]

\* every kind and every environment of the bounds, no call made yet
BuildInit ==
    /\ runner = "local"
    /\ declared \in {c \in Configurations : c["fb"] = IdProvided}
    /\ listing \in {l \in Filesystems : l[DirFns] = {}}
    /\ Constructed
    /\ probeId = IdEmpty
    /\ probeListing = {}
    /\ probeOut = <<>>
    /\ rtKind \in {Golang, NodeJS, Python}
    /\ buildEnv \in BuildEnvs
    /\ buildLog = <<>>
    /\ CmdIdle
    /\ GwIdle

\* a call rt.Build(outputPath, outputPath), as buildFunction makes it, on
\* the environment the calls before it left
Build(result) ==
    /\ Len(buildLog) < MaxCalls
    /\ buildLog' = Append(buildLog, [err |-> result.err, runs |-> result.runs,
                                     artefacts |-> buildEnv.artefacts])
    /\ buildEnv' = result.env
    /\ UNCHANGED <<configVars, startVars, buildVars, apiVars, watchVars, stopVars,
                   reactorVars, factoryVars, rtKind, cmdVars, gwVars>>

BuildGolang ==
    rtKind = Golang /\ Build(GolangRuntimeBuild(buildEnv))

BuildNodeJS ==
    rtKind = NodeJS /\ Build(NodeJSRuntimeBuild(buildEnv))

BuildPython ==
    rtKind = Python /\ Build(PythonRuntimeBuild(buildEnv))

BuildNext ==
    \/ BuildGolang
    \/ BuildNodeJS
    \/ BuildPython

BuildSpec ==
    BuildInit /\ [][BuildNext]_vars

(* ------------------------------ properties ---------------------------- *)
\* every function has an entry in lr.functionRuntimes
AllResolved ==
    \A f \in FuncNames : functionRuntimes[f] \in RuntimeKinds

\* the functions handleFileChange has been through in the batch in progress
Attempted ==
    {attempts[i][1] : i \in DOMAIN attempts}

\* the functions changeSet holds
PendingSet ==
    {f \in FuncNames : changeSet[f]}

\* C1: Start resolves a runtime for every function before the first Build
\* of the initial build pass: whenever Start stands in the build pass, a
\* Build is executing or a Build has ever been invoked, functionRuntimes
\* has an entry for each of the N functions.
C1_ResolvedBeforeBuild ==
    (pc \in {"build", "building"} \/ building # "none" \/ built # {}) => AllResolved

C1_Witness ==
    /\ pc = "building"
    /\ building # "none"
    /\ AllResolved

C3_EveryFunctionAttempted ==
    /\ reactorPc \in {"rebuild", "rebuilding"} => Len(attempts) = batchPos - 1
    /\ reactorPc = "returned" =>
          /\ Len(attempts) = Cardinality(PendingSet)
          /\ Attempted = PendingSet
          /\ Len(batch) = Len(attempts)
          /\ \A i \in DOMAIN attempts : attempts[i][1] = batch[i]

C3_Witness ==
    /\ reactorPc = "returned"
    /\ Len(attempts) >= 2
    /\ attempts[1][2] = "fail"
    /\ attempts[2][2] = "ok"

\* C4: an event whose path has an ignored-directory segment (version
\* control metadata, dependency cache, build-output staging) is dropped:
\* it adds nothing to the pending set and does not reset the timer.
C4_IgnoredSegmentDropped ==
    (lastEvent # <<>> /\ lastEvent[1] = "segment") => lastEvent[2] = "dropped"

C4_Witness ==
    /\ lastEvent = <<"segment", "dropped">>
    /\ timerArmed
    /\ changedFunctions # <<>>

\* C5: Stop may be called any number of times in sequence without a
\* panic: a panic is only ever seen when one Stop call began while another
\* had not returned.
C5_SequentialStopNeverPanics ==
    panicked => overlapped

\* C6: when a build of the initial pass fails, the remaining functions
\* that need a build are still attempted before the pass returns its error.
C6_RemainingStillAttempted ==
    startErr = "build" =>
        \A f \in FuncNames : NeedsBuild(functionRuntimes[f]) => f \in built

\* C7: a failed build of the initial pass does not abort startup: Start
\* never returns because of it.
C7_BuildFailureNotFatal ==
    ~(pc = "failed" /\ startErr = "build")

\* C8: when startLocalAPI finds no template, Start returns the error with
\* the build pass complete (every function that needs a build was built,
\* nothing is building, the lock is free), no gateway process spawned, no
\* directory registered and the reactor not started.
C8_MissingTemplateAborts ==
    template = "missing" =>
        /\ pc = "failed"
        /\ startErr = "template"
        /\ \A f \in FuncNames : NeedsBuild(functionRuntimes[f]) => f \in built
        /\ building = "none"
        /\ mu = "free"
        /\ spawned = 0
        /\ apiProcess = "nil"
        /\ watchedDirs = {}
        /\ reactorPc = "none"

C8_Witness ==
    /\ template = "missing"
    /\ built # {}

\* what the declared identifier and then detection give for function f,
\* each asked on its own (the factory's answers, tabulated over the
\* identifiers and the listings of the bounds)
GetRuntimeTable ==
    [id \in ProbeIds |-> IF id = IdEmpty THEN ErrRuntime ELSE GetRuntime(id)]
GetRuntimeFromFunctionTable ==
    [l \in SUBSET ProbeFiles |-> GetRuntimeFromFunction(l)]
DeclaredKind(f) ==
    GetRuntimeTable[declared[f]]
DetectedKind(f) ==
    GetRuntimeFromFunctionTable[listing[FunctionDir(f)]]

\* C9: the declared identifier is tried first and detection is used only
\* when it is empty or unsupported; Start fails on runtime resolution
\* exactly for a function for which both fail, and then nothing else of
\* the startup has happened: no build, no gateway, no watch, no reactor.
C9_DeclaredThenDetected ==
    /\ \A f \in FuncNames :
          functionRuntimes[f] # NoRuntime =>
             functionRuntimes[f] = IF DeclaredKind(f) # ErrRuntime
                                   THEN DeclaredKind(f)
                                   ELSE DetectedKind(f)
    /\ startErr = "runtime" =>
          /\ pc = "failed"
          /\ \E f \in FuncNames : DeclaredKind(f) = ErrRuntime /\ DetectedKind(f) = ErrRuntime
          /\ built = {}
          /\ building = "none"
          /\ spawned = 0
          /\ apiProcess = "nil"
          /\ template = "unknown"
          /\ watchedDirs = {}
          /\ reactorPc = "none"
    /\ (\E f \in FuncNames : DeclaredKind(f) = ErrRuntime /\ DetectedKind(f) = ErrRuntime) =>
          pc \in {"new", "resolve", "failed"}

C9_Witness ==
    /\ startErr = "runtime"
    /\ \E f \in FuncNames : functionRuntimes[f] # NoRuntime /\ DeclaredKind(f) = ErrRuntime

\* the marker files of each kind in a directory listing
GoMarkers(l) ==
    {n \in l : HasSuffix(n, ExtGo)}
NodeMarkers(l) ==
    {n \in l : n = PackageJson \/ HasSuffix(n, ExtJs)}
PythonMarkers(l) ==
    {n \in l : n = RequirementsTxt \/ HasSuffix(n, ExtPy)}

\* C10: for every combination of marker files, detection answers Go when
\* a Go marker is there, else Node.js when one of its markers is there,
\* else Python when one of its markers is there, and an error when there
\* is no marker.
C10_DetectionPrecedence ==
    (probeOut # <<>> /\ probeOut[1] = "GetRuntimeFromFunction") =>
        /\ GoMarkers(probeListing) # {} => probeOut[2] = Golang
        /\ (GoMarkers(probeListing) = {} /\ NodeMarkers(probeListing) # {}) =>
              probeOut[2] = NodeJS
        /\ (GoMarkers(probeListing) = {} /\ NodeMarkers(probeListing) = {}
              /\ PythonMarkers(probeListing) # {}) =>
              probeOut[2] = Python
        /\ (GoMarkers(probeListing) = {} /\ NodeMarkers(probeListing) = {}
              /\ PythonMarkers(probeListing) = {}) =>
              probeOut[2] = ErrRuntime

C10_Witness ==
    /\ probeOut = <<"GetRuntimeFromFunction", Golang>>
    /\ NodeMarkers(probeListing) # {}
    /\ PythonMarkers(probeListing) # {}
(* ------------------------- the local command ------------------------- *)
\* the characters isValidServiceName's pattern ^[a-zA-Z0-9-]+$ lets through
ServiceChars ==
    {"a","b","c","d","e","f","g","h","i","j","k","l","m","n","o","p","q","r","s","t","u","v","w","x","y","z",
     "A","B","C","D","E","F","G","H","I","J","K","L","M","N","O","P","Q","R","S","T","U","V","W","X","Y","Z",
     "0","1","2","3","4","5","6","7","8","9","-"}

isValidServiceName(name) ==
    Len(name) >= 1 /\ \A i \in 1..Len(name) : name[i] \in ServiceChars

EventHttp ==
    <<"h","t","t","p">>  \* "http"
EventS3 ==
    <<"s","3">>  \* "s3"

\* LambdaEvent.Validate: the error it returns, "nil" for none
LambdaEventValidate(e) ==
    IF e.type = <<>> THEN "event type is required"
    ELSE IF e.type = EventHttp /\ e.path = <<>> THEN "path is required"
    ELSE IF e.type = EventHttp /\ e.method = <<>> THEN "method is required"
    ELSE "nil"

\* the loop over f.Events: the first error in order
RECURSIVE EventsValidate(_)
EventsValidate(events) ==
    IF events = <<>>
    THEN "nil"
    ELSE LET err == LambdaEventValidate(Head(events))
         IN  IF err # "nil" THEN err ELSE EventsValidate(Tail(events))

\* LambdaFunc.Validate
LambdaFuncValidate(f) ==
    IF f.functionName = <<>> THEN "functionName is required"
    ELSE IF f.handler = <<>> THEN "handler is required"
    ELSE IF f.runtime = <<>> THEN "runtime is required"
    ELSE IF f.memorySize < 128 \/ f.memorySize > 10240 THEN "memorySize must be between 128 and 10240"
    ELSE IF f.timeout < 1 \/ f.timeout > 900 THEN "timeout must be between 1 and 900 seconds"
    ELSE EventsValidate(f.events)

\* ServerlessConfig.Validate: the errors it may return.  The functions are
\* ranged over in the map's order, which Go leaves open, so with several
\* malformed functions the error is that of any of them.
ServerlessConfigValidate(c) ==
    IF c.service = <<>> THEN {"field 'service' is required"}
    ELSE IF ~isValidServiceName(c.service) THEN {"service name is invalid"}
    ELSE IF c.stage = <<>> THEN {"field 'stage' is required"}
    ELSE IF DOMAIN c.functions = {} THEN {"at least one function must be defined"}
    ELSE LET errs == {LambdaFuncValidate(c.functions[n]) : n \in DOMAIN c.functions} \ {"nil"}
         IN  IF errs = {} THEN {"nil"} ELSE errs

\* the configuration files of the bounds, as yaml.Unmarshal reads them
Named ==
    <<"x">>
GoodEvent ==
    [type |-> EventHttp, path |-> Named, method |-> Named]
GoodFunc ==
    [functionName |-> Named, handler |-> Named, runtime |-> IdProvided,
     memorySize |-> 128, timeout |-> 900, events |-> <<GoodEvent>>]
LambdaFuncs ==
    {GoodFunc,
     [GoodFunc EXCEPT !.memorySize = 10240, !.timeout = 1, !.events = <<>>],
     [GoodFunc EXCEPT !.functionName = <<>>],
     [GoodFunc EXCEPT !.handler = <<>>],
     [GoodFunc EXCEPT !.runtime = <<>>],
     [GoodFunc EXCEPT !.memorySize = 127],
     [GoodFunc EXCEPT !.memorySize = 10241],
     [GoodFunc EXCEPT !.memorySize = 0],
     [GoodFunc EXCEPT !.timeout = 0],
     [GoodFunc EXCEPT !.timeout = 901],
     [GoodFunc EXCEPT !.events = <<GoodEvent, [GoodEvent EXCEPT !.type = <<>>]>>],
     [GoodFunc EXCEPT !.events = <<[GoodEvent EXCEPT !.path = <<>>]>>],
     [GoodFunc EXCEPT !.events = <<[GoodEvent EXCEPT !.method = <<>>]>>],
     [GoodFunc EXCEPT !.events = <<[type |-> EventS3, path |-> <<>>, method |-> <<>>]>>]}
ServiceNames ==
    {<<>>, <<"a">>, <<"_">>, <<"a","-","1">>, <<"a","_","1">>, <<"A","z">>, <<"a"," ">>, <<"9">>}
StageNames ==
    {<<>>, <<"d","e","v">>}
ConfigFiles ==
    {[service |-> s, stage |-> g, functions |-> fs] :
        s \in ServiceNames, g \in StageNames,
        fs \in UNION {[names -> LambdaFuncs] : names \in SUBSET {"fa", "fb"}}}

\* runLocal calls config.Load: the file cannot be read, its YAML cannot be
\* parsed, or the configuration is returned
runLocalLoad(outcome, cfg) ==
    /\ cmdPc = "load"
    /\ IF outcome = "ok"
       THEN /\ cmdCfg' = cfg
            /\ cmdPc' = "validate"
            /\ UNCHANGED cmdErr
       ELSE /\ cmdErr' = "load"
            /\ cmdPc' = "done"
            /\ UNCHANGED cmdCfg
    /\ UNCHANGED <<configVars, startVars, buildVars, apiVars, watchVars, stopVars,
                   reactorVars, factoryVars, buildProbeVars, gwVars, cmdRunner>>

\* a faulty variant of AfterValidate: the result of Validate is dropped
AfterValidateIgnored(err) ==
    "new"

\* what runLocal does with the result of cfg.Validate
AfterValidate(err) ==
    IF err # "nil" THEN "return" ELSE "new"

\* runLocal calls cfg.Validate
runLocalValidate(err) ==
    /\ cmdPc = "validate"
    /\ err \in ServerlessConfigValidate(cmdCfg)
    /\ IF AfterValidate(err) = "return"
       THEN /\ cmdErr' = "validate"
            /\ cmdPc' = "done"
       ELSE /\ cmdPc' = "new"
            /\ UNCHANGED cmdErr
    /\ UNCHANGED <<configVars, startVars, buildVars, apiVars, watchVars, stopVars,
                   reactorVars, factoryVars, buildProbeVars, gwVars, cmdCfg, cmdRunner>>

\* runLocal calls engine.NewLocalRunner, which fails when the watcher
\* cannot be created
runLocalNewLocalRunner(watcherOk) ==
    /\ cmdPc = "new"
    /\ IF watcherOk
       THEN /\ cmdRunner' = "created"
            /\ cmdPc' = "start"
            /\ UNCHANGED cmdErr
       ELSE /\ cmdErr' = "runner"
            /\ cmdPc' = "done"
            /\ UNCHANGED cmdRunner
    /\ UNCHANGED <<configVars, startVars, buildVars, apiVars, watchVars, stopVars,
                   reactorVars, factoryVars, buildProbeVars, gwVars, cmdCfg>>

\* runLocal defers runner.Stop and calls runner.Start
runLocalStart ==
    /\ cmdPc = "start"
    /\ cmdRunner' = "started"
    /\ cmdPc' = "blocked"
    /\ UNCHANGED <<configVars, startVars, buildVars, apiVars, watchVars, stopVars,
                   reactorVars, factoryVars, buildProbeVars, gwVars, cmdCfg, cmdErr>>

\* runner.Start returns, which it does with an error only (after a
\* successful startup it stays in keepAlive): the deferred Stop runs and
\* runLocal returns what Start returned
runLocalReturn(err) ==
    /\ cmdPc = "blocked"
    /\ cmdErr' = err
    /\ cmdRunner' = "stopped"
    /\ cmdPc' = "done"
    /\ UNCHANGED <<configVars, startVars, buildVars, apiVars, watchVars, stopVars,
                   reactorVars, factoryVars, buildProbeVars, gwVars, cmdCfg>>

RunLocalInit ==
    /\ runner = "engine"
    /\ declared \in {c \in Configurations : c["fb"] = IdProvided}
    /\ listing \in {l \in Filesystems : l[DirFns] = {}}
    /\ Constructed
    /\ probeId = IdEmpty
    /\ probeListing = {}
    /\ probeOut = <<>>
    /\ BuildIdle
    /\ CmdIdle
    /\ GwIdle

RunLocalNext ==
    \/ \E outcome \in {"read", "parse", "ok"}, cfg \in ConfigFiles : runLocalLoad(outcome, cfg)
    \/ \E err \in ServerlessConfigValidate(cmdCfg) : runLocalValidate(err)
    \/ \E watcherOk \in BOOLEAN : runLocalNewLocalRunner(watcherOk)
    \/ runLocalStart
    \/ \E err \in {"start"} : runLocalReturn(err)

RunLocalSpec ==
    RunLocalInit /\ [][RunLocalNext]_vars


(* ------------------- startLocalAPI, line by line ---------------------- *)
\* the argument list startLocalAPI starts from, and the pair it appends
SamArgs ==
    <<"local", "start-api", "--template", "--port", "--warm-containers">>

\* os.Stat on env.json: nil when the file is there, an error that
\* os.IsNotExist recognises when it is not, another error when the file
\* cannot be looked at
Stat(fs) ==
    IF ~fs.stat THEN "other" ELSE IF fs.env = "absent" THEN "notexist" ELSE "nil"

\* a faulty variant of EnvMissing: the default file is written whatever
\* os.Stat answered
EnvMissingAlways(err) ==
    TRUE

\* the test of line 403, os.IsNotExist(err)
EnvMissing(err) ==
    err = "notexist"

\* startLocalAPI's os.Stat of the template: it returns the error when
\* os.IsNotExist recognises it, and goes on after any other answer
gwStatTemplate ==
    /\ gwPc = "template"
    /\ IF GatewayAfterStat(gwFs.template # "missing") = "return"
       THEN /\ gwPc' = "returned"
            /\ gwOut' = [gwOut EXCEPT !.err = "template"]
       ELSE /\ gwPc' = "env"
            /\ UNCHANGED gwOut
    /\ UNCHANGED <<configVars, startVars, buildVars, apiVars, watchVars, stopVars,
                   reactorVars, factoryVars, buildProbeVars, cmdVars, gwFs>>

\* os.Stat of env.json: createDefaultEnvFile is called only when the file
\* does not exist
gwStatEnv ==
    /\ gwPc = "env"
    /\ gwPc' = IF EnvMissing(Stat(gwFs)) THEN "write" ELSE "args"
    /\ UNCHANGED <<configVars, startVars, buildVars, apiVars, watchVars, stopVars,
                   reactorVars, factoryVars, buildProbeVars, cmdVars, gwFs, gwOut>>

\* createDefaultEnvFile: os.WriteFile, which replaces the content of a
\* file that is there; its error is logged and startLocalAPI goes on
createDefaultEnvFile ==
    /\ gwPc = "write"
    /\ IF gwFs.writable
       THEN /\ gwFs' = [gwFs EXCEPT !.env = "default"]
            /\ UNCHANGED gwOut
       ELSE /\ gwOut' = [gwOut EXCEPT !.warned = TRUE]
            /\ UNCHANGED gwFs
    /\ gwPc' = "args"
    /\ UNCHANGED <<configVars, startVars, buildVars, apiVars, watchVars, stopVars,
                   reactorVars, factoryVars, buildProbeVars, cmdVars>>

\* the argument list: --env-vars is appended when a second os.Stat of
\* env.json returns no error
gwArgs ==
    /\ gwPc = "args"
    /\ gwOut' = [gwOut EXCEPT !.args = IF Stat(gwFs) = "nil"
                                      THEN Append(SamArgs, "--env-vars")
                                      ELSE SamArgs]
    /\ gwPc' = "spawn"
    /\ UNCHANGED <<configVars, startVars, buildVars, apiVars, watchVars, stopVars,
                   reactorVars, factoryVars, buildProbeVars, cmdVars, gwFs>>

\* cmd.Start: the handle is stored and nil returned, or the error is
\* returned
gwSpawn ==
    /\ gwPc = "spawn"
    /\ gwOut' = IF gwFs.sam
                THEN [gwOut EXCEPT !.process = "running", !.err = "nil"]
                ELSE [gwOut EXCEPT !.err = "spawn"]
    /\ gwPc' = "returned"
    /\ UNCHANGED <<configVars, startVars, buildVars, apiVars, watchVars, stopVars,
                   reactorVars, factoryVars, buildProbeVars, cmdVars, gwFs>>

\* startLocalAPI is called on every state of the files of the bounds
GatewayInit ==
    /\ runner = "local"
    /\ declared \in {c \in Configurations : c["fb"] = IdProvided}
    /\ listing \in {l \in Filesystems : l[DirFns] = {}}
    /\ Constructed
    /\ probeId = IdEmpty
    /\ probeListing = {}
    /\ probeOut = <<>>
    /\ BuildIdle
    /\ CmdIdle
    /\ gwPc = "template"
    /\ gwFs \in [template : {"present", "missing", "unreadable"}, env : {"absent", "user"}, stat : BOOLEAN,
                 writable : BOOLEAN, sam : BOOLEAN]
    /\ gwOut = NoGateway

GatewayNext ==
    \/ gwStatTemplate
    \/ gwStatEnv
    \/ createDefaultEnvFile
    \/ gwArgs
    \/ gwSpawn

GatewaySpec ==
    GatewayInit /\ [][GatewayNext]_vars

\* the functions with no declared runtime whose directory holds a Go
\* source file and nothing else
DetectedGoOnly ==
    {f \in FuncNames : declared[f] = IdEmpty /\ listing[FunctionDir(f)] = {FileMainGo}}

\* C11: a function with no declared runtime whose directory holds only a
\* Go source file is resolved to the Go kind and its Build is invoked
\* during startup: once the initial build pass is over, whatever its
\* result, the function has been built.
C11_DetectedGoBuiltAtStartup ==
    (pc \in {"gateway", "watch", "running"} \/ startErr \in {"build", "template", "spawn"}) =>
        \A f \in DetectedGoOnly : functionRuntimes[f] = Golang /\ f \in built

\* C12: the gateway-process handle is nil again once a Stop call has
\* killed the process: lr.apiProcess never refers to a killed process.
C12_HandleNilAfterStop ==
    apiProcess # "killed"

\* C13: at most one Build executes at a time and each one holds lr.mu: a
\* Build is executing exactly when lr.mu is held, by the initial pass
\* while Start stands in buildFunction and by the reactor while
\* handleFileChange stands in buildFunction, never by both.
C13_BuildUnderLock ==
    /\ building # "none" <=> mu # "free"
    /\ mu = "start" <=> pc = "building"
    /\ mu = "reactor" <=> reactorPc = "rebuilding"
    /\ ~(pc = "building" /\ reactorPc = "rebuilding")

C13_Witness ==
    /\ reactorPc = "rebuilding"
    /\ mu = "reactor"
    /\ building \in built

C15_NoRebuildOnceClosed ==
    [][(~watcherOpen /\ reactorPc = "select") => reactorPc' \in {"select", "exited"}]_vars

\* C16: the watched set holds no duplicate: whatever the registrations so
\* far, every directory has been added to the watcher at most once, and it
\* is in watchedDirs exactly when that one watcher.Add succeeded.
C16_WatchedOnce ==
    \A d \in Dirs : adds[d] <= 1 /\ (d \in watchedDirs <=> adds[d] = 1)

\* C16's case: setup is over and a code path that was handed to
\* addWatchedDir again for its pattern matches is watched.
C16_Witness ==
    /\ pc = "running"
    /\ \E f \in FuncNames :
          /\ CodePath(f) \in watchedDirs
          /\ PatternMatches(functionRuntimes[f], listing[CodePath(f)]) # {}

\* C17: a directory that cannot be registered does not fail the setup: no
\* start ends with a watch error, every function already visited has had
\* its code path handed to addWatchedDir, and once setup is over Start has
\* no error, every code path was tried, so were the pattern directories of
\* every function whose code path is watched, and the reactor has been started.
C17_WatchFailureNotFatal ==
    /\ startErr # "watch"
    /\ pc = "watch" => \A f \in visited : CodePath(f) \in tried
    /\ pc = "running" =>
          /\ startErr = "none"
          /\ reactorPc # "none"
          /\ \A f \in FuncNames : CodePath(f) \in tried
          /\ \A f \in FuncNames : CodePath(f) \in watchedDirs => PatternDirs(f) \subseteq tried

\* C17's case: setup is over, one code path could not be registered and
\* another one is watched.
C17_Witness ==
    /\ pc = "running"
    /\ reactorPc # "none"
    /\ \E f, g \in FuncNames : CodePath(f) \notin watchedDirs /\ CodePath(g) \in watchedDirs

\* C18: functionRuntimes is written only by the resolution step of Start:
\* a step that changes it is a step of initializeRuntimes, every other
\* step (initial build, gateway, watch setup, events, rebuild, Stop)
\* leaves it as it is, and a Build that is executing is the Build of the
\* kind its function was resolved to.
C18_RuntimesWrittenOnlyByResolution ==
    [][/\ functionRuntimes' # functionRuntimes =>
              /\ pc = "resolve"
              /\ \E f \in FuncNames \ visited :
                    functionRuntimes' = [functionRuntimes EXCEPT ![f] = ResolveRuntime(declared[f], listing[FunctionDir(f)])]
       /\ pc # "resolve" => UNCHANGED functionRuntimes
       /\ building' # "none" => buildKind' = functionRuntimes'[building']
      ]_vars

\* C18's case: the reactor is rebuilding a function after at least one
\* earlier rebuild iteration, with a kind that is the one in the map.
C18_Witness ==
    /\ reactorPc = "rebuilding"
    /\ batchPos > 1
    /\ buildKind = functionRuntimes[building]
    /\ buildKind = Golang

\* C19: the engine spawns one gateway process and no more: the count never
\* passes one, a step that spawns is the gateway step of a Start that has
\* resolved every function, built every function that needs it, found the
\* template and met no error, taken before the reactor exists, and a Start
\* past the gateway step has spawned exactly one; no step of the reactor,
\* of a rebuild or of Stop changes the count.
C19_OneGatewayByStart ==
    [][/\ spawned' <= 1
       /\ spawned' # spawned =>
             /\ pc = "gateway"
             /\ spawned = 0 /\ spawned' = 1
             /\ startErr = "none"
             /\ AllResolved
             /\ \A f \in FuncNames : NeedsBuild(functionRuntimes[f]) => f \in built
             /\ template' = "present"
             /\ reactorPc = "none"
       /\ pc' \in {"watch", "running"} => spawned' = 1
       /\ (pc # "gateway" \/ reactorPc # "none") => spawned' = spawned
      ]_vars

\* C19's case: the reactor has been through a batch of rebuilds and the
\* gateway spawned by Start is still the only one.
C19_Witness ==
    /\ pc = "running"
    /\ reactorPc = "returned"
    /\ \E i \in 1..Len(attempts) : attempts[i][2] = "ok"
    /\ spawned = 1

\* C20: Build called again on the same function, with the source and the
\* toolchain's outcome unchanged, returns what the call before it
\* returned and runs the toolchain as often as that call did: nothing the
\* first call left (the output directory it made, the artefact it wrote)
\* changes the second.
C20_BuildRepeats ==
    \A i \in 1..(Len(buildLog) - 1) :
        /\ buildLog[i + 1].err = buildLog[i].err
        /\ buildLog[i + 1].runs = buildLog[i].runs

\* C20's case: a second Go build that succeeded by compiling again, with
\* the binary of the first, which had none before it, in place.
C20_Witness ==
    /\ rtKind = Golang
    /\ Len(buildLog) = 2
    /\ buildLog[1].artefacts = {}
    /\ "bootstrap" \in buildLog[2].artefacts
    /\ buildLog[2].err = "nil"
    /\ buildLog[2].runs = 1

\* a configuration with every field Validate asks for
WellFormed(c) ==
    /\ c.service # <<>>
    /\ \A i \in 1..Len(c.service) : c.service[i] \in ServiceChars
    /\ c.stage # <<>>
    /\ DOMAIN c.functions # {}
    /\ \A n \in DOMAIN c.functions :
          LET f == c.functions[n]
          IN  /\ f.functionName # <<>> /\ f.handler # <<>> /\ f.runtime # <<>>
              /\ f.memorySize \in 128..10240
              /\ f.timeout \in 1..900
              /\ \A i \in 1..Len(f.events) :
                    /\ f.events[i].type # <<>>
                    /\ f.events[i].type = EventHttp =>
                          f.events[i].path # <<>> /\ f.events[i].method # <<>>

\* C21: a configuration that does not load or is not well formed never
\* gets an engine: a LocalRunner exists only for a loaded, well-formed
\* configuration, a load or validation error ends the command with no
\* runner, and a command that ends on a configuration that is not well
\* formed ends with that error.
C21_ConfigCheckedBeforeEngine ==
    /\ cmdRunner # "none" => WellFormed(cmdCfg) /\ cmdPc \in {"start", "blocked", "done"}
    /\ cmdPc \in {"new", "start", "blocked"} => WellFormed(cmdCfg) /\ cmdErr = "nil"
    /\ cmdErr \in {"load", "validate"} => cmdRunner = "none" /\ cmdPc = "done"
    /\ (cmdPc = "done" /\ ~WellFormed(cmdCfg)) => cmdErr \in {"load", "validate"}

\* C21's case: the command has started a runner on a configuration of two
\* functions that passed Load and Validate.
C21_Witness ==
    /\ cmdRunner = "started"
    /\ DOMAIN cmdCfg.functions = {"fa", "fb"}
    /\ cmdCfg.functions["fa"] # cmdCfg.functions["fb"]

\* the steps of Start in their order: the position Start may move to next
StartOrder ==
    {<<"new", "resolve">>, <<"resolve", "build">>, <<"build", "building">>,
     <<"building", "build">>, <<"build", "gateway">>, <<"building", "gateway">>,
     <<"gateway", "watch">>, <<"watch", "running">>}

\* C22: Start goes resolve, build pass, gateway, watch registration,
\* reactor, in that order and never back: the gateway is spawned only once
\* the build pass has returned, a directory is handed to the watcher only
\* once the gateway has been spawned, and the reactor exists, and an event
\* is received, only once every function has been through registration.
C22_StartupOrder ==
    [][/\ pc' # pc => (<<pc, pc'>> \in StartOrder \/ pc' = "failed")
       /\ pc' \in {"new", "resolve", "build", "building"} =>
             /\ spawned' = 0 /\ apiProcess' = "nil"
             /\ tried' = {} /\ watchedDirs' = {}
             /\ reactorPc' = "none"
       /\ spawned' # spawned => (pc = "gateway" /\ building = "none" /\ mu = "free")
       /\ pc' = "gateway" => (tried' = {} /\ watchedDirs' = {} /\ reactorPc' = "none")
       /\ tried' # {} => spawned' = 1
       /\ pc' = "watch" => (reactorPc' = "none" /\ nEvents' = 0)
       /\ reactorPc' # "none" =>
             /\ pc' = "running"
             /\ \A f \in FuncNames : CodePath(f) \in tried'
       /\ nEvents' > 0 => reactorPc' # "none"
      ]_vars

\* C22's case: a Start that built, spawned the gateway, registered a
\* directory and whose reactor has received an event.
C22_Witness ==
    /\ pc = "running"
    /\ built # {}
    /\ spawned = 1
    /\ watchedDirs # {}
    /\ nEvents > 0

\* the functions whose source directory (the code path of the
\* configuration) is a prefix of the path
PrefixOwners(filePath) ==
    {f \in FuncNames : HasPrefix(filePath, CodePath(f))}

\* C23: findFunctionByPath answers, for a path that is not ignored, the
\* function whose source directory is the longest prefix of the path, and
\* no function when no source directory is a prefix of it.
C23_LongestPrefixOwner ==
    (probeOut # <<>> /\ probeOut[1] = "findFunctionByPath" /\ ~shouldIgnorePath(probeOut[2])) =>
        LET owners == PrefixOwners(probeOut[2])
        IN  IF owners = {}
            THEN probeOut[3] = ""
            ELSE /\ probeOut[3] \in owners
                 /\ \A g \in owners : Len(CodePath(g)) <= Len(CodePath(probeOut[3]))

\* C24: a rebuild batch is emitted only on a timer value sent after the
\* latest accepted event re-armed the timer, that is, a full debounce
\* delay after it: never on the expiry of an earlier arming that was
\* still unserviced when the event was processed.
C24_BatchOnlyAfterFullDelay ==
    [][(reactorPc = "select" /\ reactorPc' = "rebuild") => timerChan = "fresh"]_vars

\* C25: the timer case taken with functions pending emits them as one
\* batch, the functions accepted since the batch before, each once; and
\* when the batch is over the reactor is idle: nothing pending and no
\* timer armed.
C25_BatchThenIdle ==
    [][/\ (reactorPc = "select" /\ reactorPc' = "rebuild") =>
             /\ batch' = changedFunctions
             /\ \A i, j \in DOMAIN batch' : batch'[i] = batch'[j] => i = j
             /\ {batch'[i] : i \in DOMAIN batch'} = {f \in FuncNames : burstLen[f] > 0}
       /\ (reactorPc = "returned" /\ reactorPc' = "select") =>
             /\ changedFunctions' = <<>>
             /\ PendingSet' = {}
             /\ ~timerArmed'
      ]_vars

\* a rebuild batch is executing: handleFileChange is in its loop
InBatch ==
    reactorPc \in {"rebuild", "rebuilding"}

C27_StopTakenFirst ==
    [][(stopChan = "closed" /\ reactorPc = "select") =>
          /\ reactorPc' \in {"select", "exited"}
          /\ nEvents' = nEvents
      ]_vars

\* the function whose source directory is the longest prefix of the path,
\* "" when no source directory is a prefix of it
LongestPrefixOwner(filePath) ==
    IF PrefixOwners(filePath) = {}
    THEN ""
    ELSE CHOOSE f \in PrefixOwners(filePath) :
            \A g \in PrefixOwners(filePath) : Len(CodePath(g)) <= Len(CodePath(f))

\* C28: a Create event that is not dropped, for a path owned by function
\* f, has its file copied (or the copy tried and failed) into the staging
\* directory of f as the event is processed, and f is made pending all
\* the same.
C28_CreatedFileStagedForOwner ==
    (/\ probeOut # <<>> /\ probeOut[1] = "event"
     /\ "create" \in probeOut[3]
     /\ ~IgnoreTable[probeOut[2]] /\ ~shouldIgnorePath(probeOut[2])
     /\ LongestPrefixOwner(probeOut[2]) # "") =>
        /\ probeOut[4] = LongestPrefixOwner(probeOut[2])
        /\ probeOut[5] \in {"ok", "failed"}
        /\ probeOut[6] = LongestPrefixOwner(probeOut[2])

\* C29: Build is invoked only for functions of the compiled kind: a
\* function resolved to Node.js or Python is never in a Build, neither
\* in the initial pass nor in a batch of the reactor, where its iteration
\* is a logged skip.
C29_BuildOnlyWhenNeeded ==
    /\ building # "none" => (buildKind = Golang /\ functionRuntimes[building] = Golang)
    /\ \A f \in built : functionRuntimes[f] = Golang
    /\ \A i \in DOMAIN attempts :
          functionRuntimes[attempts[i][1]] \in {NodeJS, Python} <=> attempts[i][2] = "skip"

\* C29's case: a batch of the reactor has been through a function that
\* needs no build, which has never been built, next to functions that
\* were.
C29_Witness ==
    /\ reactorPc = "returned"
    /\ built # {}
    /\ \E i \in DOMAIN attempts :
          /\ attempts[i][2] = "skip"
          /\ attempts[i][1] \notin built
          /\ functionRuntimes[attempts[i][1]] \in {NodeJS, Python}

\* C30 as stated: GetRuntime answers by the identifier case-folded and
\* stripped of its separators (dot, hyphen, underscore): identifiers with the same normal form get the
\* same answer, a normal form that starts with a known prefix gets that
\* kind, and every other identifier is unsupported.
C30_NormalizedMatch ==
    (probeOut # <<>> /\ probeOut[1] = "GetRuntime") =>
        LET Normalize(id) == SelectSeq(ToLower(id), LAMBDA c : c \notin {".", "-", "_"})
            n == Normalize(probeId)
        IN  /\ \A other \in ProbeIds : Normalize(other) = n => GetRuntime(other) = probeOut[2]
            /\ probeOut[2] = IF HasPrefix(n, LitProvided) \/ HasPrefix(n, LitGo) THEN Golang
                             ELSE IF HasPrefix(n, LitNode) THEN NodeJS
                             ELSE IF HasPrefix(n, LitPython) THEN Python
                             ELSE ErrRuntime

\* C30, amended: GetRuntime answers by the identifier case-folded, its
\* separators kept: identifiers that differ only in letter case get the
\* same answer; the lower-cased identifier gets the compiled kind when it
\* is provided.al2 or provided or starts with go, the Node.js kind when it
\* starts with node, the Python kind when it starts with python; every
\* other identifier is unsupported.
C30_CaseFoldedMatch ==
    (probeOut # <<>> /\ probeOut[1] = "GetRuntime") =>
        LET l == ToLower(probeId)
        IN  /\ \A other \in ProbeIds : ToLower(other) = l => GetRuntime(other) = probeOut[2]
            /\ probeOut[2] = IF l \in {LitProvidedAl2, LitProvided} \/ HasPrefix(l, LitGo) THEN Golang
                             ELSE IF HasPrefix(l, LitNode) THEN NodeJS
                             ELSE IF HasPrefix(l, LitPython) THEN Python
                             ELSE ErrRuntime

\* C30's case: an identifier written with capitals got the kind of its
\* lower-case form.
C30_Witness ==
    /\ probeOut = <<"GetRuntime", Golang>>
    /\ probeId = IdGoUpper
    /\ GetRuntime(IdGo) = Golang

(* ------------------------------- C31 ---------------------------------- *)
\* C31: during gateway start the default local-parameters file is written
\* only when no such file exists, an existing file is never overwritten,
\* and a failed write does not abort: startLocalAPI goes on to build the
\* arguments and to spawn the gateway, and returns nil when the spawn
\* succeeds.
C31_DefaultEnvOnlyWhenMissing ==
    [][/\ gwFs'.env # gwFs.env =>
            /\ gwFs.env = "absent"
            /\ gwFs'.env = "default"
            /\ gwPc = "write"
       /\ (gwPc = "write" /\ ~gwFs.writable) =>
            /\ gwPc' = "args"
            /\ gwOut'.err = "none"
       /\ (gwPc' = "returned" /\ gwOut.warned) =>
            /\ gwPc = "spawn"
            /\ gwOut'.err = (IF gwFs.sam THEN "nil" ELSE "spawn")
            /\ gwOut'.process = (IF gwFs.sam THEN "running" ELSE "nil")]_vars

\* startLocalAPI has returned nil with the gateway running after the write
\* of the default file failed
C31_Witness ==
    /\ gwPc = "returned"
    /\ gwOut.warned
    /\ gwFs.env = "absent"
    /\ gwOut.process = "running"
    /\ gwOut.err = "nil"

(* ------------------------------- C32 ---------------------------------- *)
\* C32: the build lock is released after every Build, on success and on
\* failure alike: whenever no Build is executing the lock is free, so a
\* build that needs the lock after a failed one finds it free.
C32_LockFreeWhenNoBuild ==
    building = "none" => mu = "free"

\* a build of the batch has failed, no Build is executing, and the next
\* function of the batch needs the lock for its build
C32_Witness ==
    /\ mu = "free"
    /\ building = "none"
    /\ reactorPc = "rebuild"
    /\ attempts # <<>>
    /\ attempts[Len(attempts)][2] = "fail"
    /\ batchPos <= Len(batch)
    /\ NeedsBuild(RebuildRuntime(batch[batchPos]))

(* ------------------------------- C33 ---------------------------------- *)
\* C33: under any interleaving of concurrent Stop calls the stop channel
\* is closed once and no call panics on closing a closed channel.  Stated
\* for the guarded Stop of the local package.
C33_ConcurrentStopNeverPanics ==
    runner = "local" => ~panicked

(* ------------------------------- C34 ---------------------------------- *)
\* C34: with the reactor scheduled fairly, in a run where Stop is never
\* called (no stop signalled, the notification stream open), every accepted change event of a function
\* leads to a rebuild batch that holds the function; and whenever the
\* reactor waits with functions pending, the timer is running or its
\* expiry is waiting in the channel.
C34_PendingLeadsToBatch ==
    /\ [](AtSelect /\ changedFunctions # <<>> => timerArmed \/ timerChan # "empty")
    /\ \A f \in FuncNames :
          (AtSelect /\ changeSet[f]) ~>
             (reactorPc = "rebuild" /\ \E i \in DOMAIN batch : batch[i] = f)

\* a batch that holds fa has begun after events of fa were accepted, with
\* no Stop call made
C34_Witness ==
    /\ reactorPc = "rebuild"
    /\ batchPos = 1
    /\ \E i \in DOMAIN batch : batch[i] = "fa"
    /\ burstLen["fa"] > 1
    /\ stopCalls = 0
    /\ watcherOpen

(* ------------------------------- C35 ---------------------------------- *)
\* C35: the attribution of an event path to a function is deterministic:
\* the two lookups the event case makes for one Create event, the one of
\* handleFileCreation and its own, answer the same function whatever the
\* iteration order of the function map.
C35_AttributionDeterministic ==
    (probeOut # <<>> /\ probeOut[1] = "event" /\ "create" \in probeOut[3]) =>
        probeOut[4] = probeOut[6]

(* ------------------------------- C36 ---------------------------------- *)
\* C36: the ignore filter does not over-match: a write event for a file
\* under a function's source directory, with no path segment equal to
\* .git, node_modules, cdk.out, tmp or .idea and no temporary, swap or
\* log suffix on its file name, is accepted: its function is made pending.
C36_PlainWriteAccepted ==
    (probeOut # <<>> /\ probeOut[1] = "event" /\ probeOut[3] = {"write"}) =>
        LET name == probeOut[2]
            ignoredDirs == {DirGit, DirNodeModules, DirCdkOut, DirTmp, <<".","i","d","e","a">>}
            hasSegment == \E d \in ignoredDirs :
                             \/ Contains(name, <<"/">> \o d \o <<"/">>)
                             \/ HasSuffix(name, <<"/">> \o d)
            hasSuffix == \E s \in {<<"~">>, PatSwp, PatTmp, PatLog} : HasSuffix(Base(name), s)
        IN  (PrefixOwners(name) # {} /\ ~hasSegment /\ ~hasSuffix) => probeOut[6] # ""

(* ------------------------------- C37 ---------------------------------- *)
\* C37: an event whose operation is a permission change and nothing else
\* is discarded before any other handling: no staging copy is tried, no
\* function is made pending and so the timer is not reset, whatever the
\* path of the event.
C37_ChmodOnlyDiscarded ==
    (probeOut # <<>> /\ probeOut[1] = "event" /\ probeOut[3] = {"chmod"}) =>
        /\ probeOut[4] = ""
        /\ probeOut[5] = "none"
        /\ probeOut[6] = ""

\* the event case has run on a permission change of fa's main.go, a path
\* whose Write is accepted
C37_Witness ==
    /\ probeOut = <<"event", PathAMain, {"chmod"}, "", "none", "">>
    /\ OwnerTable[PathAMain] # {}
    /\ ~IgnoreTable[PathAMain]

(* ------------------------------- C38 ---------------------------------- *)
\* C38: the watched-directory set is modified only during watch setup: a
\* step that changes it is an iteration of setupFileWatchers, and the
\* reactor's steps (an event received, a creation included, a timer
\* value taken, a rebuild, a watcher error) leave it as it is.
C38_WatchedSetOnlyBySetup ==
    [][/\ watchedDirs' # watchedDirs => (pc = "watch" /\ reactorPc = "none")
       /\ reactorPc # "none" => watchedDirs' = watchedDirs]_vars

\* events have been received and a batch has run with directories watched
C38_Witness ==
    /\ reactorPc = "returned"
    /\ nEvents > 1
    /\ watchedDirs # {}
    /\ lastEvent[2] = "accepted"

(* ------------------------------- C39 ---------------------------------- *)
\* C39: Start returns only with an error: after a successful startup its
\* thread stays blocked in keepAlive whatever happens next, a Stop call
\* and the exit of the reactor loop included, and a Start that is over
\* has returned an error.
C39_StartReturnsOnlyErrors ==
    [][/\ pc = "running" => pc' = "running"
       /\ pc' \in {"new", "resolve", "build", "building", "gateway", "watch", "running", "failed"}
       /\ pc' = "failed" <=> startErr' # "none"]_vars

\* Start is blocked after Stop has closed the channel and the reactor
\* loop has exited
C39_Witness ==
    /\ pc = "running"
    /\ startErr = "none"
    /\ stopChan = "closed"
    /\ reactorPc = "exited"

(* ------------------------------- C40 ---------------------------------- *)
\* C40: whenever Start has returned an error no gateway process has been
\* spawned and no reactor goroutine has been started, so a Stop that
\* follows the failed Start finds no process to kill and leaves none.
C40_FailedStartLeavesNothing ==
    pc = "failed" =>
        /\ spawned = 0
        /\ apiProcess = "nil"
        /\ reactorPc = "none"

\* Start has failed to spawn the gateway and Stop has run after it
C40_Witness ==
    /\ pc = "failed"
    /\ startErr = "spawn"
    /\ stopCalls > 0
    /\ stopChan = "closed"
    /\ ~watcherOpen
    /\ apiProcess = "nil"
====
